---------------------------- MODULE Spec2Model ----------------------------
(***************************************************************************)
(* Photon Vault (src/src/thalos_prime/stargate_storage.py): an event-      *)
(* sourced SQLite ledger (PhotonVault) with a packet codec and a Merkle    *)
(* builder (MerkleChainBuilder) and a frequency/recency cache              *)
(* (CrystallineCache).  Callers are threads; each owns a thread-local      *)
(* connection, write transactions are opened with BEGIN IMMEDIATE, and     *)
(* the cache is shared under one mutex.                                    *)
(***************************************************************************)
EXTENDS Integers, Sequences, FiniteSets, TLC

(***************************************************************************)
(* Bounds of the model and the inputs the callers draw from.               *)
(***************************************************************************)
MaxPuts == 2
MaxPurges == 1
MaxRows == 2
MaxTime == 1
MaxQueries == 2

Threads == {"t1", "t2"}
Keys == {"a", ""}
Zones == {"z1", "z2"}
Payloads == {<<>>, <<7>>}
\* The (key, zone, payload) triples the callers put.
PutInputs == { <<"a", "z1", <<>>>>, <<"a", "z2", <<7>>>>, <<"", "z1", <<7>>>> }
\* The (start_pulse, end_pulse, active_filter) triples the callers traverse
\* with; end_pulse -1 stands for None.
TraverseInputs == { <<0, -1, TRUE>>, <<0, -1, FALSE>>, <<1, 1, FALSE>> }
MaxCloses == 1
Horizons == {-1, 1, 2}
Capacity == 1

VARIABLES
  ledger,          \* committed rows of photon_ledger, in event_sequence order
  writer,          \* the thread holding SQLite's write lock, or "none"
  tx,              \* the rows as seen inside the open write transaction
  photon_chamber,  \* CrystallineCache.photon_chamber, in insertion order
  resonance_freq,  \* CrystallineCache.resonance_freq
  last_pulse,      \* CrystallineCache.last_pulse
  total_queries,   \* CrystallineCache.total_queries
  photon_hits,     \* CrystallineCache.photon_hits
  event_counter,   \* PhotonVault.event_counter
  conn,            \* per thread: thread_pool.conduit ("none", "open", "closed")
  now,             \* the wall clock, time.time()
  pc,              \* per thread: position inside the running operation
  op,              \* per thread: the running (or last) call and its arguments
  loc,             \* per thread: local variables of the running operation
  ret,             \* per thread: what the last call returned or raised
  pre,             \* per thread: ledger and cache when a call overlapping no other was made
  solo,            \* per thread: no other call overlapped the current/last call
  sequential,      \* no two calls have overlapped so far
  closes,          \* how many times shutdown_gateway has been called
  lastw            \* per key: zone and payload of the last successful put
                   \* not followed by a delete of the key

vars == <<ledger, writer, tx, photon_chamber, resonance_freq, last_pulse,
          total_queries, photon_hits, event_counter, conn, now, pc, op, loc,
          ret, pre, solo, sequential, closes, lastw>>

cacheVars == <<photon_chamber, resonance_freq, last_pulse, total_queries,
               photon_hits>>

(***************************************************************************)
(* Byte strings are sequences of 0..255.                                   *)
(***************************************************************************)
\* The sum of the bytes of s, by halves.
RECURSIVE SumBytes(_)
SumBytes(s) ==
  IF Len(s) = 0 THEN 0
  ELSE IF Len(s) = 1 THEN s[1]
  ELSE LET h == Len(s) \div 2
       IN SumBytes(SubSeq(s, 1, h)) + SumBytes(SubSeq(s, h + 1, Len(s)))

\* struct.pack('!I', n) and struct.pack('!H', n): big-endian, range-checked.
PackU32(n) == << (n \div 16777216) % 256, (n \div 65536) % 256,
                 (n \div 256) % 256, n % 256 >>
PackU16(n) == << (n \div 256) % 256, n % 256 >>
UnpackU32(b) == ((b[1] * 256 + b[2]) * 256 + b[3]) * 256 + b[4]
UnpackU16(b) == b[1] * 256 + b[2]

\* zlib.compress / zlib.decompress: a framed stream (magic byte, the data,
\* a one-byte checksum); decompress rejects anything that is not such a frame.
ZlibCompress(data) == <<120>> \o data \o << (SumBytes(data) + Len(data)) % 256 >>
ZlibValid(body) ==
  /\ Len(body) >= 2
  /\ body[1] = 120
  /\ LET d == SubSeq(body, 2, Len(body) - 1)
     IN body[Len(body)] = (SumBytes(d) + Len(d)) % 256
ZlibDecompress(body) == SubSeq(body, 2, Len(body) - 1)

\* struct.pack raises struct.error when a length does not fit its field.
EncodeFails(data, compression) ==
  LET body == IF compression THEN ZlibCompress(data) ELSE data
  IN Len(data) \div 65536 > 65535 \/ Len(body) > 65535

\* An encoder that writes the payload's length in both length fields.
encode_with_payload_length(data, compression) ==
  LET body == IF compression THEN ZlibCompress(data) ELSE data
  IN << IF compression THEN 1 ELSE 0 >> \o PackU32(Len(data))
       \o PackU16(Len(data)) \o body

encode_photon_packet(data, compression) ==
  LET body == IF compression THEN ZlibCompress(data) ELSE data
  IN << IF compression THEN 1 ELSE 0 >> \o PackU32(Len(data))
       \o PackU16(Len(body)) \o body

HeaderSize == 7

\* A decoder that raises on no packet.
DecodeNeverFails(packet) == FALSE

\* decode_photon_packet raises on a short packet or an invalid zlib body.
DecodeFails(packet) ==
  \/ Len(packet) < HeaderSize
  \/ /\ packet[1] = 1
     /\ ~ZlibValid(SubSeq(packet, HeaderSize + 1, Len(packet)))

\* The exception a failed decode raises: ValueError from line 138,
\* zlib.error from zlib.decompress.
DecodeError(packet) ==
  IF Len(packet) < HeaderSize THEN "ValueError" ELSE "zlib.error"

\* A decoder that hands back the stored body without decompressing it.
decode_stored_body(packet) == SubSeq(packet, HeaderSize + 1, Len(packet))

decode_photon_packet(packet) ==
  LET payload == SubSeq(packet, HeaderSize + 1, Len(packet))
  IN IF packet[1] = 1 THEN ZlibDecompress(payload) ELSE payload

(***************************************************************************)
(* MerkleChainBuilder.compute_merkle_root.  sha256 is a collision-free     *)
(* symbolic hash: the input between two out-of-band symbols.               *)
(***************************************************************************)
Sha256(x) == <<256>> \o x \o <<257>>

\* .hex(): two digits for each element, the high one first.
HexOf(d) ==
  [i \in 1..(2 * Len(d)) |-> IF i % 2 = 1 THEN d[(i + 1) \div 2] \div 16
                                         ELSE d[i \div 2] % 16]

EmptySentinel == <<101, 109, 112, 116, 121>>

ChunkSize == 256

\* chunks = [payload[i:i+256] for i in range(0, len(payload), 256)]
RECURSIVE ChunksOf(_)
ChunksOf(payload) ==
  IF payload = <<>> THEN <<>>
  ELSE IF Len(payload) <= ChunkSize THEN <<payload>>
  ELSE <<SubSeq(payload, 1, ChunkSize)>>
         \o ChunksOf(SubSeq(payload, ChunkSize + 1, Len(payload)))

\* A pass that carries an unpaired last hash up as it is.
RECURSIVE NextLevelPromotingLast(_)
NextLevelPromotingLast(level) ==
  IF level = <<>> THEN <<>>
  ELSE IF Len(level) = 1 THEN << level[1] >>
  ELSE << Sha256(level[1] \o level[2]) >>
         \o NextLevelPromotingLast(SubSeq(level, 3, Len(level)))

\* One pass of the while loop: hash adjacent pairs, the odd last with itself.
RECURSIVE NextLevel(_)
NextLevel(level) ==
  IF level = <<>> THEN <<>>
  ELSE IF Len(level) = 1 THEN << Sha256(level[1] \o level[1]) >>
  ELSE << Sha256(level[1] \o level[2]) >> \o NextLevel(SubSeq(level, 3, Len(level)))

RECURSIVE ReduceLevels(_)
ReduceLevels(level) ==
  IF Len(level) > 1 THEN ReduceLevels(NextLevel(level)) ELSE level[1]

compute_merkle_root(data_chunks) ==
  IF data_chunks = <<>> THEN HexOf(Sha256(EmptySentinel))
  ELSE HexOf(ReduceLevels([i \in 1..Len(data_chunks) |-> Sha256(data_chunks[i])]))

(***************************************************************************)
(* CrystallineCache.  A cache value is the record of the three maps:       *)
(* chamber is the insertion-ordered dict of [key, data] entries, freq and  *)
(* pulse are functions on their key sets.                                  *)
(***************************************************************************)
ChamberKeys(chamber) == { chamber[i].key : i \in 1..Len(chamber) }
ChamberIndex(chamber, k) == CHOOSE i \in 1..Len(chamber) : chamber[i].key = k
ChamberGet(chamber, k) == chamber[ChamberIndex(chamber, k)].data

\* d[k] = v on a dict held as a function.
DictSet(d, k, v) == [x \in DOMAIN d \cup {k} |-> IF x = k THEN v ELSE d[x]]
\* del d[k]
DictDel(d, k) == [x \in DOMAIN d \ {k} |-> d[x]]
\* resonance_freq is a defaultdict(int): a missing key reads as 0.
FreqOf(freq, k) == IF k \in DOMAIN freq THEN freq[k] ELSE 0

RemoveAt(s, i) == SubSeq(s, 1, i - 1) \o SubSeq(s, i + 1, Len(s))

\* score_i < score_j for score = freq * (1.0 / (1.0 + age)), age = t - pulse.
ScoreLess(c, ki, kj, t) ==
  FreqOf(c.freq, ki) * (1 + (t - c.pulse[kj])) < FreqOf(c.freq, kj) * (1 + (t - c.pulse[ki]))

\* The for loop of _find_lowest_resonance from entry i on; best is the index
\* of the current victim (0: none yet, min_score = inf).
RECURSIVE LowestFrom(_, _, _, _)
LowestFrom(c, i, best, t) ==
  IF i > Len(c.chamber) THEN best
  ELSE IF best = 0 \/ ScoreLess(c, c.chamber[i].key, c.chamber[best].key, t)
       THEN LowestFrom(c, i + 1, i, t)
       ELSE LowestFrom(c, i + 1, best, t)

\* The index of the victim, 0 for None.
find_lowest_resonance(c, t) ==
  IF c.chamber = <<>> THEN 0 ELSE LowestFrom(c, 1, 0, t)

\* Lines 43-48: the eviction branch.  "if victim_key:" is false for None
\* and for the empty string.
\* An eviction that deletes the victim from photon_chamber only.
EvictFromChamberOnly(c, max_photons, t) ==
  IF Len(c.chamber) >= max_photons
  THEN LET v == find_lowest_resonance(c, t)
       IN IF v # 0 /\ c.chamber[v].key # ""
          THEN [chamber |-> RemoveAt(c.chamber, v),
                freq    |-> c.freq,
                pulse   |-> c.pulse]
          ELSE c
  ELSE c

EvictIfFull(c, max_photons, t) ==
  IF Len(c.chamber) >= max_photons
  THEN LET v == find_lowest_resonance(c, t)
       IN IF v # 0 /\ c.chamber[v].key # ""
          THEN [chamber |-> RemoveAt(c.chamber, v),
                freq    |-> DictDel(c.freq, c.chamber[v].key),
                pulse   |-> DictDel(c.pulse, c.chamber[v].key)]
          ELSE c
  ELSE c

\* A beam_in that makes room before it looks for the key.
beam_in_evicting_first(c, max_photons, nebula_key, photon_data, t1, t2) ==
  LET e == EvictIfFull(c, max_photons, t2)
  IN IF nebula_key \in ChamberKeys(e.chamber)
     THEN [chamber |-> [e.chamber EXCEPT ![ChamberIndex(e.chamber, nebula_key)].data = photon_data],
           freq    |-> DictSet(e.freq, nebula_key, FreqOf(e.freq, nebula_key) + 1),
           pulse   |-> DictSet(e.pulse, nebula_key, t1)]
     ELSE [chamber |-> Append(e.chamber, [key |-> nebula_key, data |-> photon_data]),
           freq    |-> DictSet(e.freq, nebula_key, 1),
           pulse   |-> DictSet(e.pulse, nebula_key, t1)]

\* beam_in with current_pulse = t1 and the eviction's current_time = t2.
beam_in(c, max_photons, nebula_key, photon_data, t1, t2) ==
  IF nebula_key \in ChamberKeys(c.chamber)
  THEN [chamber |-> [c.chamber EXCEPT ![ChamberIndex(c.chamber, nebula_key)].data = photon_data],
        freq    |-> DictSet(c.freq, nebula_key, FreqOf(c.freq, nebula_key) + 1),
        pulse   |-> DictSet(c.pulse, nebula_key, t1)]
  ELSE LET e == EvictIfFull(c, max_photons, t2)
       IN [chamber |-> Append(e.chamber, [key |-> nebula_key, data |-> photon_data]),
           freq    |-> DictSet(e.freq, nebula_key, 1),
           pulse   |-> DictSet(e.pulse, nebula_key, t1)]

\* A beam_out that reads the entry without touching its frequency or pulse.
beam_out_peek(c, nebula_key, t) == c

\* beam_out's effect on the maps on a hit (the counters are the action's).
beam_out_touch(c, nebula_key, t) ==
  [chamber |-> c.chamber,
   freq    |-> DictSet(c.freq, nebula_key, FreqOf(c.freq, nebula_key) + 1),
   pulse   |-> DictSet(c.pulse, nebula_key, t)]

EmptyDict == [x \in {} |-> 0]

collapse_all == [chamber |-> <<>>, freq |-> EmptyDict, pulse |-> EmptyDict]

\* The quotient without its guard for total_queries = 0.
efficiency_unguarded(hits, queries) == <<hits, queries>>

efficiency_quotient(hits, queries) ==
  IF queries > 0 THEN <<hits, queries>> ELSE <<0, 1>>

(***************************************************************************)
(* The SQL statements, as operators on the rows of photon_ledger.          *)
(***************************************************************************)
RECURSIVE MaxSequence(_)
MaxSequence(rows) ==
  IF rows = <<>> THEN 0
  ELSE LET m == MaxSequence(Tail(rows))
       IN IF rows[1].event_sequence > m THEN rows[1].event_sequence ELSE m

\* INTEGER PRIMARY KEY AUTOINCREMENT: one more than the largest ever used
\* (rows are never deleted, so the largest in the table).
\* A rowid that is the largest one in use, not the one after it.
NextSequenceReused(rows) == MaxSequence(rows)

NextSequence(rows) == MaxSequence(rows) + 1

\* An UPDATE that deactivates nothing.
DeactivateNothing(rows, k) == rows

\* A DELETE of the key's active rows in place of the UPDATE.
RECURSIVE DeactivateByDelete(_, _)
DeactivateByDelete(rows, k) ==
  IF rows = <<>> THEN <<>>
  ELSE IF rows[1].nebula_coord = k /\ rows[1].is_active = 1
       THEN DeactivateByDelete(Tail(rows), k)
       ELSE <<rows[1]>> \o DeactivateByDelete(Tail(rows), k)

\* UPDATE photon_ledger SET is_active = 0 WHERE nebula_coord = ? AND is_active = 1
Deactivate(rows, k) ==
  [i \in 1..Len(rows) |->
     IF rows[i].nebula_coord = k /\ rows[i].is_active = 1
     THEN [rows[i] EXCEPT !.is_active = 0] ELSE rows[i]]

\* An INSERT that writes the event twice, the first copy inactive.
InsertMaterializeTwice(rows, k, z, packet, proof, t) ==
  LET row == [event_sequence  |-> NextSequence(rows),
              nebula_coord    |-> k,
              galaxy_zone     |-> z,
              photon_packet   |-> packet,
              merkle_proof    |-> proof,
              pulse_timestamp |-> t,
              event_type      |-> "MATERIALIZE",
              is_active       |-> 0]
  IN rows \o << row, [row EXCEPT !.event_sequence = NextSequence(rows) + 1,
                                 !.is_active = 1] >>

\* INSERT INTO photon_ledger (...) VALUES (?, ?, ?, ?, ?, 'MATERIALIZE', 1)
InsertMaterialize(rows, k, z, packet, proof, t) ==
  Append(rows, [event_sequence  |-> NextSequence(rows),
                nebula_coord    |-> k,
                galaxy_zone     |-> z,
                photon_packet   |-> packet,
                merkle_proof    |-> proof,
                pulse_timestamp |-> t,
                event_type      |-> "MATERIALIZE",
                is_active       |-> 1])

\* The rows INSERT ... SELECT ... FROM photon_ledger WHERE nebula_coord = ?
\* LIMIT 1 may take its galaxy_zone from: any row of the key (no ORDER BY).
PurgeSources(rows, k) == { i \in 1..Len(rows) : rows[i].nebula_coord = k }

\* The PURGE row built from source row i: packet X'00', proof '', inactive.
InsertPurge(rows, k, i, t) ==
  Append(rows, [event_sequence  |-> NextSequence(rows),
                nebula_coord    |-> rows[i].nebula_coord,
                galaxy_zone     |-> rows[i].galaxy_zone,
                photon_packet   |-> <<0>>,
                merkle_proof    |-> <<>>,
                pulse_timestamp |-> t,
                event_type      |-> "PURGE",
                is_active       |-> 0])

ActiveIndexes(rows, k) ==
  { i \in 1..Len(rows) : rows[i].nebula_coord = k /\ rows[i].is_active = 1 }

\* The SELECT without its is_active = 1 condition.
SelectLatest(rows, k) ==
  LET A == { i \in 1..Len(rows) : rows[i].nebula_coord = k }
  IN IF A = {} THEN <<>>
     ELSE << rows[CHOOSE i \in A :
                    \A j \in A : rows[j].event_sequence <= rows[i].event_sequence] >>

\* SELECT ... WHERE nebula_coord = ? AND is_active = 1
\* ORDER BY event_sequence DESC LIMIT 1; fetchone(): <<row>> or <<>> (None).
SelectActive(rows, k) ==
  LET A == ActiveIndexes(rows, k)
  IN IF A = {} THEN <<>>
     ELSE << rows[CHOOSE i \in A :
                    \A j \in A : rows[j].event_sequence <= rows[i].event_sequence] >>

\* All orders of the index set S in which f is non-increasing (desc = TRUE)
\* or non-decreasing: the orders ORDER BY may deliver, ties in any order.
Orderings(rows, S, desc) ==
  { o \in [1..Cardinality(S) -> S] :
      /\ \A i, j \in 1..Cardinality(S) : i # j => o[i] # o[j]
      /\ \A i \in 1..Cardinality(S) - 1 :
           IF desc
           THEN rows[o[i]].pulse_timestamp >= rows[o[i + 1]].pulse_timestamp
           ELSE rows[o[i]].pulse_timestamp <= rows[o[i + 1]].pulse_timestamp }

\* LIMIT n: a negative n is no limit in SQLite.
Limit(s, n) == IF n < 0 \/ n >= Len(s) THEN s ELSE SubSeq(s, 1, n)

\* The scan without its is_active = 1 condition.
ScanResultsOfAllRows(rows, z, horizon) ==
  LET S == { i \in 1..Len(rows) : rows[i].galaxy_zone = z }
  IN { Limit([n \in 1..Cardinality(S) |->
                [nebula_coord    |-> rows[o[n]].nebula_coord,
                 pulse_timestamp |-> rows[o[n]].pulse_timestamp,
                 merkle_proof    |-> rows[o[n]].merkle_proof,
                 event_sequence  |-> rows[o[n]].event_sequence]], horizon)
       : o \in Orderings(rows, S, TRUE) }

\* scan_sector's SELECT and its manifests, one result per admissible order.
ScanResults(rows, z, horizon) ==
  LET S == { i \in 1..Len(rows) : rows[i].galaxy_zone = z /\ rows[i].is_active = 1 }
  IN { Limit([n \in 1..Cardinality(S) |->
                [nebula_coord    |-> rows[o[n]].nebula_coord,
                 pulse_timestamp |-> rows[o[n]].pulse_timestamp,
                 merkle_proof    |-> rows[o[n]].merkle_proof,
                 event_sequence  |-> rows[o[n]].event_sequence]], horizon)
       : o \in Orderings(rows, S, TRUE) }

\* A range query that leaves out the events written at end_pulse itself.
TraverseResultsBeforeEnd(rows, start_pulse, end_pulse, active_filter) ==
  LET S == { i \in 1..Len(rows) :
               /\ start_pulse <= rows[i].pulse_timestamp
               /\ rows[i].pulse_timestamp < end_pulse
               /\ (active_filter => rows[i].is_active = 1) }
  IN { [n \in 1..Cardinality(S) |->
          [nebula_coord    |-> rows[o[n]].nebula_coord,
           galaxy_zone     |-> rows[o[n]].galaxy_zone,
           pulse_timestamp |-> rows[o[n]].pulse_timestamp,
           merkle_proof    |-> rows[o[n]].merkle_proof,
           event_type      |-> rows[o[n]].event_type,
           is_active       |-> rows[o[n]].is_active]]
       : o \in Orderings(rows, S, FALSE) }

\* traverse's SELECT: pulse_timestamp BETWEEN ? AND ? [AND is_active = 1]
\* ORDER BY pulse_timestamp ASC.
TraverseResults(rows, start_pulse, end_pulse, active_filter) ==
  LET S == { i \in 1..Len(rows) :
               /\ start_pulse <= rows[i].pulse_timestamp
               /\ rows[i].pulse_timestamp <= end_pulse
               /\ (active_filter => rows[i].is_active = 1) }
  IN { [n \in 1..Cardinality(S) |->
          [nebula_coord    |-> rows[o[n]].nebula_coord,
           galaxy_zone     |-> rows[o[n]].galaxy_zone,
           pulse_timestamp |-> rows[o[n]].pulse_timestamp,
           merkle_proof    |-> rows[o[n]].merkle_proof,
           event_type      |-> rows[o[n]].event_type,
           is_active       |-> rows[o[n]].is_active]]
       : o \in Orderings(rows, S, FALSE) }

\* Counts in which total_events is the number of active events.
MetricsOfActiveEvents(rows) ==
  [total_coordinates  |-> Cardinality({ rows[i].nebula_coord : i \in 1..Len(rows) }),
   active_coordinates |-> Cardinality({ rows[i].nebula_coord :
                                          i \in { j \in 1..Len(rows) : rows[j].is_active = 1 } }),
   galaxy_zones       |-> Cardinality({ rows[i].galaxy_zone : i \in 1..Len(rows) }),
   total_events       |-> Cardinality({ j \in 1..Len(rows) : rows[j].is_active = 1 })]

\* get_metrics' SELECT of the four counts.
MetricsOf(rows) ==
  [total_coordinates  |-> Cardinality({ rows[i].nebula_coord : i \in 1..Len(rows) }),
   active_coordinates |-> Cardinality({ rows[i].nebula_coord :
                                          i \in { j \in 1..Len(rows) : rows[j].is_active = 1 } }),
   galaxy_zones       |-> Cardinality({ rows[i].galaxy_zone : i \in 1..Len(rows) }),
   total_events       |-> Len(rows)]

(***************************************************************************)
(* State shared by the actions.                                            *)
(***************************************************************************)
Cache == [chamber |-> photon_chamber, freq |-> resonance_freq, pulse |-> last_pulse]

SetCache(c) ==
  /\ photon_chamber' = c.chamber
  /\ resonance_freq' = c.freq
  /\ last_pulse' = c.pulse

\* What a call of time.time() may return when the clock last read t0: the
\* clock never runs backwards and the model stops it at MaxTime.
Ticks(t0) == { x \in t0..(t0 + 1) : x <= MaxTime }

NoOp == [name |-> "none"]
NoLoc == [pulse_time |-> 0, packet |-> <<>>, proof |-> <<>>, cached |-> <<>>,
          zone |-> "", payload |-> <<>>, fault |-> FALSE]
NoRet == [kind |-> "pending"]
NoPre == [ledger |-> <<>>, cache |-> collapse_all, queries |-> 0, hits |-> 0]
NoWrite == [kind |-> "none"]

RetNone == [kind |-> "None"]
RetBool(b) == [kind |-> "bool", val |-> b]
RetRaise(e) == [kind |-> "raise", error |-> e]
RetTuple(z, p, t) == [kind |-> "tuple", zone |-> z, payload |-> p, pulse_timestamp |-> t]
RetList(l) == [kind |-> "list", rows |-> l]
RetBytes(b) == [kind |-> "bytes", value |-> b]
RetStr(x) == [kind |-> "str", value |-> x]

Snapshot == [ledger |-> ledger, cache |-> Cache, queries |-> total_queries,
             hits |-> photon_hits]

\* The number of rows of one event_type: what the bounds MaxPuts and
\* MaxPurges limit.
RowsOfType(rows, type) ==
  Cardinality({ i \in 1..Len(rows) : rows[i].event_type = type })

Idle(t) == pc[t] = "idle"
\* No other thread is inside a call.
OthersIdle(t) == \A u \in Threads \ {t} : pc[u] \in {"idle", "done"}

\* The per-thread observations f with those of the other threads whose call
\* is over put back to null: their callers have gone on.
Forget(f, t, null) ==
  [u \in Threads |-> IF u # t /\ pc[u] \in {"idle", "done"} THEN null ELSE f[u]]

\* A call by thread t: its arguments, the state it starts from, and whether
\* it overlaps another thread's call.
Enter(t, o) ==
  /\ Idle(t)
  /\ op' = [Forget(op, t, NoOp) EXCEPT ![t] = o]
  /\ pre' = [u \in Threads |-> IF u = t /\ OthersIdle(t) THEN Snapshot ELSE NoPre]
  /\ solo' = [u \in Threads |-> u = t /\ OthersIdle(t)]
  /\ sequential' = (sequential /\ OthersIdle(t))

\* lastw is kept for sequential executions only.
KeepWrites == lastw' = IF sequential' THEN lastw ELSE [k \in Keys |-> NoWrite]
NoteWrite(k, w) == lastw' = IF sequential THEN [lastw EXCEPT ![k] = w] ELSE lastw

\* pc after thread t's step to label, the other finished callers gone on.
Moved(t, label) ==
  [u \in Threads |-> IF u = t THEN label
                     ELSE IF pc[u] = "done" THEN "idle" ELSE pc[u]]

\* The call goes on at label with locals l.
EnterGoto(t, label, l) ==
  /\ pc' = Moved(t, label)
  /\ ret' = [Forget(ret, t, NoRet) EXCEPT ![t] = NoRet]
  /\ loc' = [Forget(loc, t, NoLoc) EXCEPT ![t] = l]

\* The call returns (or raises) r at once.
EnterLeave(t, r) ==
  /\ pc' = Moved(t, "done")
  /\ ret' = [Forget(ret, t, NoRet) EXCEPT ![t] = r]
  /\ loc' = [Forget(loc, t, NoLoc) EXCEPT ![t] = NoLoc]

\* The return (or raise) of thread t's running call with result r.
Leave(t, r) ==
  /\ pc' = [pc EXCEPT ![t] = "done"]
  /\ ret' = [ret EXCEPT ![t] = r]

Goto(t, label) ==
  /\ pc' = [pc EXCEPT ![t] = label]
  /\ UNCHANGED ret

\* _acquire_conduit: connect once per thread; a closed conduit is kept.
acquire_conduit(c) == IF c = "none" THEN "open" ELSE c

\* A handler that leaves the transaction's rows in place of rolling back.
RollbackKeepsWork(committed, working) == working

\* conduit.execute("ROLLBACK"): the committed rows stand, the transaction's
\* rows are dropped.
Rollback(committed, working) == committed

\* crystal_cache.beam_in(k, data) under the mutex: current_pulse is read
\* first, the eviction scan reads the clock again when it runs.
BeamIn(k, data) ==
  \E t1 \in Ticks(now) : \E t2 \in Ticks(t1) :
    /\ SetCache(beam_in(Cache, Capacity, k, data, t1, t2))
    /\ now' = IF k \in ChamberKeys(photon_chamber) \/ Len(photon_chamber) < Capacity
              THEN t1 ELSE t2

Init ==
  /\ ledger = <<>>
  /\ writer = "none"
  /\ tx = <<>>
  /\ photon_chamber = <<>>
  /\ resonance_freq = EmptyDict
  /\ last_pulse = EmptyDict
  /\ total_queries = 0
  /\ photon_hits = 0
  /\ event_counter = 0
  /\ conn = [t \in Threads |-> IF t = "t1" THEN "open" ELSE "none"]
  /\ now = 0
  /\ pc = [t \in Threads |-> "idle"]
  /\ op = [t \in Threads |-> NoOp]
  /\ loc = [t \in Threads |-> NoLoc]
  /\ ret = [t \in Threads |-> NoRet]
  /\ pre = [t \in Threads |-> NoPre]
  /\ solo = [t \in Threads |-> FALSE]
  /\ sequential = TRUE
  /\ closes = 0
  /\ lastw = [k \in Keys |-> NoWrite]

(***************************************************************************)
(* PhotonVault.materialize                                                 *)
(***************************************************************************)
\* Lines 230-238: encode, Merkle proof, pulse_time, the conduit.  A failed
\* encode reaches the handler before conduit is bound: UnboundLocalError.
PutCallOf(t, inputs) ==
  \E in \in inputs, pt \in Ticks(now) :
   LET k == in[1]  z == in[2]  p == in[3] IN
    /\ RowsOfType(ledger, "MATERIALIZE") < MaxPuts
    /\ Enter(t, [name |-> "put", key |-> k, zone |-> z, payload |-> p])
    /\ IF EncodeFails(p, TRUE)
       THEN /\ EnterLeave(t, RetRaise("UnboundLocalError"))
            /\ UNCHANGED <<now, conn>>
       ELSE /\ EnterGoto(t, "p_begin",
                         [NoLoc EXCEPT !.packet = encode_photon_packet(p, TRUE),
                                       !.proof = compute_merkle_root(ChunksOf(p)),
                                       !.pulse_time = pt])
            /\ now' = pt
            /\ conn' = [conn EXCEPT ![t] = acquire_conduit(conn[t])]
    /\ KeepWrites
    /\ UNCHANGED <<ledger, writer, tx, cacheVars, event_counter, closes>>

PutCall(t) == PutCallOf(t, PutInputs)

\* Line 240: BEGIN IMMEDIATE takes the write lock.  On a closed conduit the
\* statement and then the handler's ROLLBACK raise ProgrammingError.
PutBegin(t) ==
  /\ pc[t] = "p_begin"
  /\ IF conn[t] = "closed"
     THEN /\ Leave(t, RetRaise("ProgrammingError"))
          /\ loc' = [loc EXCEPT ![t] = NoLoc]
          /\ UNCHANGED <<writer, tx>>
     ELSE /\ writer = "none"
          /\ RowsOfType(ledger, "MATERIALIZE") < MaxPuts
          /\ writer' = t
          /\ tx' = ledger
          /\ Goto(t, "p_update")
          /\ UNCHANGED loc
  /\ UNCHANGED <<ledger, cacheVars, event_counter, closes, conn, now, op, pre, solo,
                 sequential, lastw>>

\* Lines 242-246
PutUpdate(t) ==
  /\ pc[t] = "p_update"
  /\ tx' = Deactivate(tx, op[t].key)
  /\ Goto(t, "p_insert")
  /\ UNCHANGED <<ledger, writer, cacheVars, event_counter, closes, conn, now, op, loc,
                 pre, solo, sequential, lastw>>

\* An INSERT that also puts the payload in the cache, before the COMMIT.
PutInsertThenCache(t) ==
  /\ pc[t] = "p_insert"
  /\ tx' = InsertMaterialize(tx, op[t].key, op[t].zone, loc[t].packet,
                             loc[t].proof, loc[t].pulse_time)
  /\ BeamIn(op[t].key, op[t].payload)
  /\ Goto(t, "p_commit")
  /\ UNCHANGED <<ledger, writer, total_queries, photon_hits, event_counter,
                 closes, conn, op, loc, pre, solo, sequential, lastw>>

\* Lines 248-253
PutInsert(t) ==
  /\ pc[t] = "p_insert"
  /\ tx' = InsertMaterialize(tx, op[t].key, op[t].zone, loc[t].packet,
                             loc[t].proof, loc[t].pulse_time)
  /\ Goto(t, "p_commit")
  /\ UNCHANGED <<ledger, writer, cacheVars, event_counter, closes, conn, now, op, loc,
                 pre, solo, sequential, lastw>>

\* Line 255
PutCommit(t) ==
  /\ pc[t] = "p_commit"
  /\ ledger' = tx
  /\ tx' = <<>>
  /\ writer' = "none"
  /\ Goto(t, "p_fill")
  /\ UNCHANGED <<cacheVars, event_counter, closes, conn, now, op, loc, pre, solo,
                 sequential, lastw>>

\* Lines 257-262: beam_in of the raw payload, the event counter, return True.
PutFill(t) ==
  /\ pc[t] = "p_fill"
  /\ BeamIn(op[t].key, op[t].payload)
  /\ event_counter' = event_counter + 1
  /\ UNCHANGED closes
  /\ NoteWrite(op[t].key, [kind |-> "put", zone |-> op[t].zone,
                           payload |-> op[t].payload])
  /\ loc' = [loc EXCEPT ![t] = NoLoc]
  /\ Leave(t, RetBool(TRUE))
  /\ UNCHANGED <<ledger, writer, tx, total_queries, photon_hits, conn, op, pre,
                 solo, sequential>>

\* A handler that returns False without ending the transaction.
PutFailKeepingLock(t) ==
  /\ pc[t] \in {"p_update", "p_insert", "p_commit"}
  /\ loc' = [loc EXCEPT ![t] = [NoLoc EXCEPT !.fault = TRUE]]
  /\ Leave(t, RetBool(FALSE))
  /\ UNCHANGED <<ledger, writer, tx, cacheVars, event_counter, closes, conn, now, op,
                 pre, solo, sequential, lastw>>

\* Lines 264-266: a statement of the open transaction fails (the UPDATE, the
\* INSERT or the COMMIT); the handler rolls back and returns False.  When
\* SQLite has already rolled the transaction back itself (auto), the
\* handler's ROLLBACK raises instead.
PutFail(t) ==
  /\ pc[t] \in {"p_update", "p_insert", "p_commit"}
  /\ ledger' = Rollback(ledger, tx)
  /\ tx' = <<>>
  /\ writer' = "none"
  /\ loc' = [loc EXCEPT ![t] = [NoLoc EXCEPT !.fault = TRUE]]
  /\ \E auto \in BOOLEAN :
       Leave(t, IF auto THEN RetRaise("OperationalError") ELSE RetBool(FALSE))
  /\ UNCHANGED <<cacheVars, event_counter, closes, conn, now, op, pre, solo,
                 sequential, lastw>>

\* BEGIN IMMEDIATE gives up after the busy timeout while another thread
\* holds the write lock; the handler's ROLLBACK then raises (no transaction).
PutTimeout(t) ==
  /\ pc[t] = "p_begin"
  /\ conn[t] = "open"
  /\ writer # "none"
  /\ loc' = [loc EXCEPT ![t] = [NoLoc EXCEPT !.fault = TRUE]]
  /\ Leave(t, RetRaise("OperationalError"))
  /\ UNCHANGED <<ledger, writer, tx, cacheVars, event_counter, closes, conn, now, op,
                 pre, solo, sequential, lastw>>

(***************************************************************************)
(* PhotonVault.dematerialize                                               *)
(***************************************************************************)
\* Line 275 and beam_out (lines 54-65), under the cache mutex.
GetCall(t) ==
  \E k \in Keys, ht \in Ticks(now) :
    /\ Enter(t, [name |-> "get", key |-> k])
    /\ total_queries < MaxQueries
    /\ total_queries' = total_queries + 1
    /\ IF k \in ChamberKeys(photon_chamber)
       THEN /\ photon_hits' = photon_hits + 1
            /\ SetCache(beam_out_touch(Cache, k, ht))
            /\ now' = ht
            /\ EnterGoto(t, "g_check",
                         [NoLoc EXCEPT !.cached = ChamberGet(photon_chamber, k)])
       ELSE /\ UNCHANGED <<photon_hits, photon_chamber, resonance_freq,
                           last_pulse, now>>
            /\ EnterGoto(t, "g_read", NoLoc)
    /\ KeepWrites
    /\ UNCHANGED <<ledger, writer, tx, event_counter, closes, conn>>

\* A cache-hit branch that returns the cached bytes without the ledger's word.
HitTrustsCache(cached, row) ==
  IF row # <<>>
  THEN RetTuple(row[1].galaxy_zone, cached, row[1].pulse_timestamp)
  ELSE RetTuple("", cached, 0)

\* Lines 276-286: what the cache-hit branch returns for the fetched row
\* (<<>>: no active row, fall through to the full read).
HitResult(cached, row) ==
  IF row # <<>>
  THEN RetTuple(row[1].galaxy_zone, cached, row[1].pulse_timestamp)
  ELSE NoRet

GetCheck(t) ==
  /\ pc[t] = "g_check"
  /\ conn' = [conn EXCEPT ![t] = acquire_conduit(conn[t])]
  /\ IF conn[t] = "closed"
     THEN Leave(t, RetRaise("ProgrammingError"))
     ELSE LET r == HitResult(loc[t].cached, SelectActive(ledger, op[t].key))
          IN IF r # NoRet THEN Leave(t, r) ELSE Goto(t, "g_read")
  /\ UNCHANGED <<ledger, writer, tx, cacheVars, event_counter, closes, now, op, loc,
                 pre, solo, sequential, lastw>>

\* Lines 288-299 and 305: the full read and the decode.
GetRead(t) ==
  /\ pc[t] = "g_read"
  /\ conn' = [conn EXCEPT ![t] = acquire_conduit(conn[t])]
  /\ LET row == SelectActive(ledger, op[t].key)
     IN IF conn[t] = "closed"
        THEN Leave(t, RetRaise("ProgrammingError")) /\ UNCHANGED loc
        ELSE IF row = <<>>
        THEN Leave(t, RetNone) /\ UNCHANGED loc
        ELSE IF DecodeFails(row[1].photon_packet)
        THEN Leave(t, RetRaise(DecodeError(row[1].photon_packet))) /\ UNCHANGED loc
        ELSE /\ loc' = [loc EXCEPT ![t] =
                         [NoLoc EXCEPT !.zone = row[1].galaxy_zone,
                                       !.payload = decode_photon_packet(row[1].photon_packet),
                                       !.pulse_time = row[1].pulse_timestamp]]
             /\ Goto(t, "g_fill")
  /\ UNCHANGED <<ledger, writer, tx, cacheVars, event_counter, closes, now, op, pre,
                 solo, sequential, lastw>>

\* A read that returns the decoded payload without putting it in the cache.
GetFillWithoutCache(t) ==
  /\ pc[t] = "g_fill"
  /\ Leave(t, RetTuple(loc[t].zone, loc[t].payload, loc[t].pulse_time))
  /\ loc' = [loc EXCEPT ![t] = NoLoc]
  /\ UNCHANGED <<ledger, writer, tx, cacheVars, event_counter, closes, conn, now, op,
                 pre, solo, sequential, lastw>>

\* Lines 301-303
GetFill(t) ==
  /\ pc[t] = "g_fill"
  /\ BeamIn(op[t].key, loc[t].payload)
  /\ Leave(t, RetTuple(loc[t].zone, loc[t].payload, loc[t].pulse_time))
  /\ loc' = [loc EXCEPT ![t] = NoLoc]
  /\ UNCHANGED <<ledger, writer, tx, total_queries, photon_hits, event_counter, closes,
                 conn, op, pre, solo, sequential, lastw>>

(***************************************************************************)
(* PhotonVault.purge_coordinate                                            *)
(***************************************************************************)
\* Lines 348-349
DelCall(t) ==
  \E k \in Keys, pt \in Ticks(now) :
    /\ RowsOfType(ledger, "PURGE") < MaxPurges
    /\ Enter(t, [name |-> "delete", key |-> k])
    /\ conn' = [conn EXCEPT ![t] = acquire_conduit(conn[t])]
    /\ EnterGoto(t, "d_begin", [NoLoc EXCEPT !.pulse_time = pt])
    /\ now' = pt
    /\ KeepWrites
    /\ UNCHANGED <<ledger, writer, tx, cacheVars, event_counter, closes>>

\* Line 352
DelBegin(t) ==
  /\ pc[t] = "d_begin"
  /\ IF conn[t] = "closed"
     THEN /\ Leave(t, RetRaise("ProgrammingError"))
          /\ loc' = [loc EXCEPT ![t] = NoLoc]
          /\ UNCHANGED <<writer, tx>>
     ELSE /\ writer = "none"
          /\ RowsOfType(ledger, "PURGE") < MaxPurges
          /\ writer' = t
          /\ tx' = ledger
          /\ Goto(t, "d_update")
          /\ UNCHANGED loc
  /\ UNCHANGED <<ledger, cacheVars, event_counter, closes, conn, now, op, pre, solo,
                 sequential, lastw>>

\* Lines 354-358
DelUpdate(t) ==
  /\ pc[t] = "d_update"
  /\ tx' = Deactivate(tx, op[t].key)
  /\ Goto(t, "d_insert")
  /\ UNCHANGED <<ledger, writer, cacheVars, event_counter, closes, conn, now, op, loc,
                 pre, solo, sequential, lastw>>

\* Lines 360-368: one PURGE row when the key has any row, none otherwise.
DelInsert(t) ==
  /\ pc[t] = "d_insert"
  /\ IF PurgeSources(tx, op[t].key) = {}
     THEN tx' = tx
     ELSE \E i \in PurgeSources(tx, op[t].key) :
            tx' = InsertPurge(tx, op[t].key, i, loc[t].pulse_time)
  /\ Goto(t, "d_commit")
  /\ UNCHANGED <<ledger, writer, cacheVars, event_counter, closes, conn, now, op, loc,
                 pre, solo, sequential, lastw>>

\* Line 372: what purge_coordinate returns once its COMMIT has succeeded.
PurgeReturn(before, key) == TRUE

\* A COMMIT that also drops the deleted key's entry from the cache.
DelCommitEvicting(t) ==
  /\ pc[t] = "d_commit"
  /\ ledger' = tx
  /\ tx' = <<>>
  /\ writer' = "none"
  /\ NoteWrite(op[t].key, [kind |-> "delete"])
  /\ loc' = [loc EXCEPT ![t] = NoLoc]
  /\ Leave(t, RetBool(PurgeReturn(ledger, op[t].key)))
  /\ IF op[t].key \in ChamberKeys(photon_chamber)
     THEN SetCache([chamber |-> RemoveAt(photon_chamber,
                                         ChamberIndex(photon_chamber, op[t].key)),
                    freq |-> DictDel(resonance_freq, op[t].key),
                    pulse |-> DictDel(last_pulse, op[t].key)])
     ELSE UNCHANGED <<photon_chamber, resonance_freq, last_pulse>>
  /\ UNCHANGED <<total_queries, photon_hits, event_counter, closes, conn, now, op,
                 pre, solo, sequential>>

\* Lines 370-372
DelCommit(t) ==
  /\ pc[t] = "d_commit"
  /\ ledger' = tx
  /\ tx' = <<>>
  /\ writer' = "none"
  /\ NoteWrite(op[t].key, [kind |-> "delete"])
  /\ loc' = [loc EXCEPT ![t] = NoLoc]
  /\ Leave(t, RetBool(PurgeReturn(ledger, op[t].key)))
  /\ UNCHANGED <<cacheVars, event_counter, closes, conn, now, op, pre, solo, sequential>>

\* Lines 373-375
DelFail(t) ==
  /\ pc[t] \in {"d_update", "d_insert", "d_commit"}
  /\ ledger' = Rollback(ledger, tx)
  /\ tx' = <<>>
  /\ writer' = "none"
  /\ loc' = [loc EXCEPT ![t] = [NoLoc EXCEPT !.fault = TRUE]]
  /\ \E auto \in BOOLEAN :
       Leave(t, IF auto THEN RetRaise("OperationalError") ELSE RetBool(FALSE))
  /\ UNCHANGED <<cacheVars, event_counter, closes, conn, now, op, pre, solo,
                 sequential, lastw>>

\* BEGIN IMMEDIATE times out against the holder of the write lock.
DelTimeout(t) ==
  /\ pc[t] = "d_begin"
  /\ conn[t] = "open"
  /\ writer # "none"
  /\ loc' = [loc EXCEPT ![t] = [NoLoc EXCEPT !.fault = TRUE]]
  /\ Leave(t, RetRaise("OperationalError"))
  /\ UNCHANGED <<ledger, writer, tx, cacheVars, event_counter, closes, conn, now, op,
                 pre, solo, sequential, lastw>>

(***************************************************************************)
(* The read-only operations, each one SELECT.                              *)
(***************************************************************************)
\* scan_sector, lines 318-336
Scan(t) ==
  \E z \in Zones, horizon \in Horizons :
    /\ Enter(t, [name |-> "scan", zone |-> z, horizon |-> horizon])
    /\ conn' = [conn EXCEPT ![t] = acquire_conduit(conn[t])]
    /\ IF conn[t] = "closed"
       THEN EnterLeave(t, RetRaise("ProgrammingError"))
       ELSE \E r \in ScanResults(ledger, z, horizon) : EnterLeave(t, RetList(r))
    /\ KeepWrites
    /\ UNCHANGED <<ledger, writer, tx, cacheVars, event_counter, closes, now>>

\* traverse, lines 390-422; end_pulse None reads the clock.
Traverse(t) ==
  \E in \in TraverseInputs :
   \E ct \in IF in[2] >= 0 THEN {now} ELSE Ticks(now) :
    LET start_pulse == in[1]
        end_given == in[2] >= 0
        end_pulse == IF end_given THEN in[2] ELSE ct
        active_filter == in[3]
    IN /\ Enter(t, [name |-> "traverse", start_pulse |-> start_pulse,
                    end_pulse |-> end_pulse, active_filter |-> active_filter])
       /\ now' = IF end_given THEN now ELSE ct
       /\ conn' = [conn EXCEPT ![t] = acquire_conduit(conn[t])]
       /\ IF conn[t] = "closed"
          THEN EnterLeave(t, RetRaise("ProgrammingError"))
          ELSE \E r \in TraverseResults(ledger, start_pulse, end_pulse, active_filter) :
                 EnterLeave(t, RetList(r))
       /\ KeepWrites
       /\ UNCHANGED <<ledger, writer, tx, cacheVars, event_counter, closes>>

\* get_metrics, lines 426-447
Metrics(t) ==
  /\ Enter(t, [name |-> "metrics"])
  /\ conn' = [conn EXCEPT ![t] = acquire_conduit(conn[t])]
  /\ IF conn[t] = "closed"
     THEN EnterLeave(t, RetRaise("ProgrammingError"))
     ELSE EnterLeave(t, [kind |-> "metrics",
                         counts |-> MetricsOf(ledger),
                         photon_efficiency |-> efficiency_quotient(photon_hits, total_queries),
                         cache_hits |-> photon_hits,
                         cache_queries |-> total_queries])
  /\ KeepWrites
  /\ UNCHANGED <<ledger, writer, tx, cacheVars, event_counter, closes, now>>

(***************************************************************************)
(* Closing the vault and opening a new one on the same file.               *)
(***************************************************************************)
\* conduit.close() of the calling thread's conduit, if it has one.
close_conduit(c) == IF c = "none" THEN "none" ELSE "closed"

\* shutdown_gateway, lines 449-453
Shutdown(t) ==
  /\ closes < MaxCloses
  /\ closes' = closes + 1
  /\ Enter(t, [name |-> "close"])
  /\ conn' = [conn EXCEPT ![t] = close_conduit(conn[t])]
  /\ SetCache(collapse_all)
  /\ EnterLeave(t, RetNone)
  /\ KeepWrites
  /\ UNCHANGED <<ledger, writer, tx, total_queries, photon_hits, event_counter,
                 now>>

\* A constructor that creates the table anew, dropping what the file held.
ReopenDroppingRows(t) ==
  /\ conn[t] = "closed"
  /\ OthersIdle(t)
  /\ Enter(t, [name |-> "open"])
  /\ conn' = [u \in Threads |-> IF u = t THEN "open" ELSE "none"]
  /\ SetCache(collapse_all)
  /\ total_queries' = 0
  /\ photon_hits' = 0
  /\ event_counter' = 0
  /\ ledger' = <<>>
  /\ EnterLeave(t, RetNone)
  /\ KeepWrites
  /\ UNCHANGED <<closes, writer, tx, now>>

\* PhotonVault(vault_path) again after a close, lines 154-216: a new cache,
\* new thread-local conduits, CREATE TABLE IF NOT EXISTS on the same file.
Reopen(t) ==
  /\ conn[t] = "closed"
  /\ OthersIdle(t)
  /\ Enter(t, [name |-> "open"])
  /\ conn' = [u \in Threads |-> IF u = t THEN "open" ELSE "none"]
  /\ SetCache(collapse_all)
  /\ total_queries' = 0
  /\ photon_hits' = 0
  /\ event_counter' = 0
  /\ UNCHANGED closes
  /\ EnterLeave(t, RetNone)
  /\ KeepWrites
  /\ UNCHANGED <<ledger, writer, tx, now>>

(***************************************************************************)
(* MerkleChainBuilder's static methods called on their own, with the byte  *)
(* strings they are called on, and a ledger file whose stored packet has   *)
(* been damaged.                                                           *)
(***************************************************************************)
\* A byte string of n bytes whose 256-byte chunks differ from one another.
Block(n) == [i \in 1..n |-> (i + i \div 256) % 256]

\* Payloads of the codec: empty, short, one that is itself a zlib stream,
\* one that is itself a packet, and one of two chunks.
SmallPayloads ==
  { <<>>, <<7>>, <<0>>, <<7, 8>>, <<255, 255>>, <<120, 7, 8>>, <<120, 7, 134>>,
    <<1, 0, 0, 0, 1, 0, 3, 120, 7, 8>>, <<0, 0, 0, 0, 0, 0, 0>>, Block(257) }

\* <<data, compression>>: each payload both ways.
EncodeInputs == SmallPayloads \X BOOLEAN

\* Packets no call of encode_photon_packet returns: shorter than the header
\* (the last is the tombstone's X'00'), a compressed body that is no zlib
\* stream, length fields that disagree with the body or with the decoded
\* payload, and a flag that is neither 0 nor 1.
MalformedPackets ==
  { <<>>, <<1, 0, 0>>, <<0>>,
    <<1, 0, 0, 0, 1, 0, 3, 120, 7, 99>>,
    <<1, 0, 0, 0, 0, 0, 0>>,
    <<0, 0, 0, 0, 5, 0, 5, 7, 8>>,
    <<0, 0, 0, 0, 1, 0, 1, 7, 8>>,
    <<0, 0, 0, 0, 1, 0, 2, 7, 8>>,
    <<1, 0, 0, 0, 9, 0, 3, 120, 7, 8>>,
    <<2, 0, 0, 0, 1, 0, 1, 7>> }

EncodedPackets ==
  { encode_photon_packet(in[1], in[2]) :
      in \in { x \in EncodeInputs : ~EncodeFails(x[1], x[2]) } }

DecodeInputs == EncodedPackets \cup MalformedPackets

\* What encode_photon_packet does on each input: struct.error, or the packet.
EncodeOutcome ==
  [in \in EncodeInputs |->
     IF EncodeFails(in[1], in[2]) THEN RetRaise("struct.error")
     ELSE RetBytes(encode_photon_packet(in[1], in[2]))]

\* What decode_photon_packet does on each packet: an exception, or the payload.
DecodeOutcome ==
  [packet \in DecodeInputs |->
     IF DecodeFails(packet) THEN RetRaise(DecodeError(packet))
     ELSE RetBytes(decode_photon_packet(packet))]

\* The damage done to stored packets: a truncated packet, a body that is
\* no zlib stream, and a packet that decodes to other bytes.
StoredDamage ==
  { <<0>>, <<1, 0, 0, 0, 1, 0, 3, 120, 7, 99>>, <<0, 0, 0, 0, 5, 0, 5, 7, 8>> }

\* Lists of chunks: none, one, and up to five, so that a level of the tree
\* has an odd number of hashes at the leaves and above them.
MerkleInputs ==
  { <<>>, << <<1>> >>, << EmptySentinel >>, << <<1>>, <<2>> >>,
    << <<1>>, <<2>>, <<3>> >>, << <<1>>, <<2>>, <<3>>, <<4>> >>,
    << <<1>>, <<2>>, <<3>>, <<4>>, <<5>> >>, << <<1>>, <<>>, <<1>> >> }

\* materialize on payloads of two and of three chunks, and on one whose
\* compressed body is one byte more than the header's length field holds.
LargeInputs ==
  { <<"a", "z1", Block(257)>>, <<"", "z2", Block(513)>>,
    <<"a", "z2", Block(65534)>> }

\* materialize on payloads whose proofs are compared: the empty payload and
\* the five bytes of the sentinel, a short payload, and a payload of three
\* full chunks with and without a copy of its last chunk after it.
ProofInputs ==
  { <<"a", "z1", <<>>>>, <<"", "z1", EmptySentinel>>, <<"a", "z2", <<7>>>>,
    <<"a", "z1", Block(768)>>,
    <<"", "z2", Block(768) \o SubSeq(Block(768), 513, 768)>> }

\* encode_photon_packet(data, compression), lines 122-131
Encode(t) ==
  \E in \in EncodeInputs :
    /\ Enter(t, [name |-> "encode", data |-> in[1], compression |-> in[2]])
    /\ EnterLeave(t, EncodeOutcome[in])
    /\ KeepWrites
    /\ UNCHANGED <<ledger, writer, tx, cacheVars, event_counter, closes, conn, now>>

\* decode_photon_packet(packet), lines 133-145
Decode(t) ==
  \E packet \in DecodeInputs :
    /\ Enter(t, [name |-> "decode", packet |-> packet])
    /\ EnterLeave(t, DecodeOutcome[packet])
    /\ KeepWrites
    /\ UNCHANGED <<ledger, writer, tx, cacheVars, event_counter, closes, conn, now>>

\* compute_merkle_root(data_chunks), lines 102-120
MerkleRoot(t) ==
  \E chunks \in MerkleInputs :
    /\ Enter(t, [name |-> "merkle", data_chunks |-> chunks])
    /\ EnterLeave(t, RetStr(compute_merkle_root(chunks)))
    /\ KeepWrites
    /\ UNCHANGED <<ledger, writer, tx, cacheVars, event_counter, closes, conn, now>>

\* The photon_packet BLOB of an active row is overwritten in the file by
\* something other than the vault, between two calls.
Corrupt ==
  \E i \in 1..Len(ledger), packet \in StoredDamage :
    /\ \A t \in Threads : Idle(t)
    /\ ledger[i].is_active = 1
    /\ ledger[i].photon_packet \notin StoredDamage
    /\ ledger' = [ledger EXCEPT ![i].photon_packet = packet]
    /\ UNCHANGED <<writer, tx, cacheVars, event_counter, closes, conn, now, pc, op,
                   loc, ret, pre, solo, sequential, lastw>>

\* The caller takes the result and goes on.
Return(t) ==
  /\ pc[t] = "done"
  /\ pc' = [pc EXCEPT ![t] = "idle"]
  /\ op' = [op EXCEPT ![t] = NoOp]
  /\ ret' = [ret EXCEPT ![t] = NoRet]
  /\ loc' = [loc EXCEPT ![t] = NoLoc]
  /\ pre' = [pre EXCEPT ![t] = NoPre]
  /\ solo' = [solo EXCEPT ![t] = FALSE]
  /\ UNCHANGED <<ledger, writer, tx, cacheVars, event_counter, closes, conn,
                 now, sequential, lastw>>

(***************************************************************************)
(* Spec: the callers run put, get and delete concurrently, every step of   *)
(* one call interleaving with the steps of the others, and any statement   *)
(* of a write transaction may fail.  Writes start while the ledger has     *)
(* fewer than MaxRows rows.                                                *)
(***************************************************************************)
Room == Len(ledger) < MaxRows

Next ==
  \E t \in Threads :
    \/ Room /\ PutCall(t)
    \/ Room /\ PutBegin(t)
    \/ PutUpdate(t) \/ PutInsert(t)
    \/ PutCommit(t) \/ PutFill(t) \/ PutFail(t) \/ PutTimeout(t)
    \/ GetCall(t) \/ GetCheck(t) \/ GetRead(t) \/ GetFill(t)
    \/ Room /\ DelCall(t)
    \/ Room /\ DelBegin(t)
    \/ DelUpdate(t) \/ DelInsert(t)
    \/ DelCommit(t) \/ DelFail(t) \/ DelTimeout(t)
    \/ Return(t)

Spec == Init /\ [][Next]_vars

(***************************************************************************)
(* SpecSeq: the operations of one open vault, the calls following one      *)
(* another without overlap and no statement failing.  Thread t1, which     *)
(* built the vault, makes the calls.                                       *)
(***************************************************************************)
\* The other threads call only while t1's conduit is closed (SpecLife).
MayCall(t) == t = "t1" \/ conn["t1"] = "closed"

Turn(t) == OthersIdle(t) /\ MayCall(t)

NextSeq ==
  \E t \in Threads :
    \/ Turn(t) /\ PutCall(t)
    \/ Turn(t) /\ PutBegin(t)
    \/ Turn(t) /\ PutUpdate(t)
    \/ Turn(t) /\ PutInsert(t)
    \/ Turn(t) /\ PutCommit(t)
    \/ Turn(t) /\ PutFill(t)
    \/ Turn(t) /\ GetCall(t)
    \/ Turn(t) /\ GetCheck(t)
    \/ Turn(t) /\ GetRead(t)
    \/ Turn(t) /\ GetFill(t)
    \/ Turn(t) /\ DelCall(t)
    \/ Turn(t) /\ DelBegin(t)
    \/ Turn(t) /\ DelUpdate(t)
    \/ Turn(t) /\ DelInsert(t)
    \/ Turn(t) /\ DelCommit(t)
    \/ Turn(t) /\ Scan(t)
    \/ Turn(t) /\ Traverse(t)
    \/ Turn(t) /\ Metrics(t)
    \/ Turn(t) /\ Return(t)

SpecSeq == Init /\ [][NextSeq]_vars

(***************************************************************************)
(* SpecLife: the sequential calls of SpecSeq with the vault closed and     *)
(* opened again on the same file; while t1's conduit is closed the other   *)
(* threads call too, each through a conduit of its own.  Writes start      *)
(* while the ledger has fewer than MaxRows rows.                           *)
(***************************************************************************)
NextLife ==
  \E t \in Threads :
    \/ Turn(t) /\ Room /\ PutCall(t)
    \/ Turn(t) /\ PutBegin(t)
    \/ Turn(t) /\ PutUpdate(t)
    \/ Turn(t) /\ PutInsert(t)
    \/ Turn(t) /\ PutCommit(t)
    \/ Turn(t) /\ PutFill(t)
    \/ Turn(t) /\ GetCall(t)
    \/ Turn(t) /\ GetCheck(t)
    \/ Turn(t) /\ GetRead(t)
    \/ Turn(t) /\ GetFill(t)
    \/ Turn(t) /\ Room /\ DelCall(t)
    \/ Turn(t) /\ DelBegin(t)
    \/ Turn(t) /\ DelUpdate(t)
    \/ Turn(t) /\ DelInsert(t)
    \/ Turn(t) /\ DelCommit(t)
    \/ Turn(t) /\ Scan(t)
    \/ Turn(t) /\ Traverse(t)
    \/ Turn(t) /\ Metrics(t)
    \/ Turn(t) /\ Shutdown(t)
    \/ Turn(t) /\ Reopen(t)
    \/ Turn(t) /\ Return(t)

SpecLife == Init /\ [][NextLife]_vars

(***************************************************************************)
(* SpecCodec: the threads call the codec and the Merkle builder, which are *)
(* static methods and share no state, on the byte strings above.           *)
(***************************************************************************)
NextCodec ==
  \E t \in Threads :
    \/ Encode(t)
    \/ Decode(t)
    \/ MerkleRoot(t)
    \/ Return(t)

SpecCodec == Init /\ [][NextCodec]_vars

(***************************************************************************)
(* SpecBlob: thread t1 puts and gets payloads of several chunks and calls  *)
(* the Merkle builder, one call after the other, and between calls a       *)
(* stored packet may be damaged in the file.                               *)
(***************************************************************************)
NextBlob ==
  \/ \E t \in Threads :
       \/ Turn(t) /\ PutCallOf(t, LargeInputs)
       \/ Turn(t) /\ PutBegin(t)
       \/ Turn(t) /\ PutUpdate(t)
       \/ Turn(t) /\ PutInsert(t)
       \/ Turn(t) /\ PutCommit(t)
       \/ Turn(t) /\ PutFill(t)
       \/ Turn(t) /\ GetCall(t)
       \/ Turn(t) /\ GetCheck(t)
       \/ Turn(t) /\ GetRead(t)
       \/ Turn(t) /\ GetFill(t)
       \/ Turn(t) /\ MerkleRoot(t)
       \/ Turn(t) /\ Return(t)
  \/ Corrupt

SpecBlob == Init /\ [][NextBlob]_vars

(***************************************************************************)
(* SpecProof: thread t1 puts payloads one after the other, and the ledger  *)
(* keeps the proof of each.                                                *)
(***************************************************************************)
NextProof ==
  \E t \in Threads :
    \/ Turn(t) /\ PutCallOf(t, ProofInputs)
    \/ Turn(t) /\ PutBegin(t)
    \/ Turn(t) /\ PutUpdate(t)
    \/ Turn(t) /\ PutInsert(t)
    \/ Turn(t) /\ PutCommit(t)
    \/ Turn(t) /\ PutFill(t)
    \/ Turn(t) /\ Return(t)

SpecProof == Init /\ [][NextProof]_vars

(***************************************************************************)
(* SpecLive: the interleaved puts, gets and deletes of Spec under          *)
(* fairness.  A write is called only while the ledger has room for it and  *)
(* for the writes already under way, so that no call waits on a bound of   *)
(* the model.  Every thread goes on running the call it is in; the store   *)
(* grants the write lock to a caller that finds it free again and again.   *)
(* Failures and lock timeouts may happen but need not.                     *)
(***************************************************************************)
PutsUnderWay ==
  Cardinality({ t \in Threads : pc[t] \in {"p_begin", "p_update", "p_insert", "p_commit"} })

PurgesUnderWay ==
  Cardinality({ t \in Threads : pc[t] \in {"d_begin", "d_update", "d_insert", "d_commit"} })

RoomForWrite == Len(ledger) + PutsUnderWay + PurgesUnderWay < MaxRows

RoomForPut == RoomForWrite

RoomForPurge ==
  RoomForWrite /\ RowsOfType(ledger, "PURGE") + PurgesUnderWay < MaxPurges

\* The put of SpecLive.
LiveInputs == { <<"a", "z1", <<7>>>> }

NextLive ==
  \E t \in Threads :
    \/ RoomForPut /\ PutCallOf(t, LiveInputs)
    \/ PutBegin(t)
    \/ PutUpdate(t)
    \/ PutInsert(t)
    \/ PutCommit(t)
    \/ PutFill(t)
    \/ PutFail(t)
    \/ PutTimeout(t)
    \/ GetCall(t)
    \/ GetCheck(t)
    \/ GetRead(t)
    \/ GetFill(t)
    \/ RoomForPurge /\ DelCall(t)
    \/ DelBegin(t)
    \/ DelUpdate(t)
    \/ DelInsert(t)
    \/ DelCommit(t)
    \/ DelFail(t)
    \/ DelTimeout(t)
    \/ Return(t)

\* The statements of a call that need no lock grant: the thread runs them.
Runs(t) ==
  \/ PutUpdate(t) \/ PutInsert(t) \/ PutCommit(t) \/ PutFill(t)
  \/ GetCheck(t) \/ GetRead(t) \/ GetFill(t)
  \/ DelUpdate(t) \/ DelInsert(t) \/ DelCommit(t)

\* BEGIN IMMEDIATE is granted the write lock.
Granted(t) == PutBegin(t) \/ DelBegin(t)

Fairness == \A t \in Threads : WF_vars(Runs(t)) /\ SF_vars(Granted(t))

SpecLive == Init /\ [][NextLive]_vars /\ Fairness

(***************************************************************************)
(* Properties.                                                             *)
(***************************************************************************)
ReturnedFrom(t, name) == pc[t] = "done" /\ op[t].name = name

ActiveCount(rows, k) == Cardinality(ActiveIndexes(rows, k))

\* C1 (SpecSeq): in a sequential execution, once put(k, z, p) has returned
\* True the ledger holds exactly one active event for k, and a get(k) that
\* follows (no delete or other put of k in between) returns (z, p, t) for
\* some t while that one active event stands, whatever was put, read,
\* deleted, cached or evicted before.
C1_PutThenGet ==
  \A t \in Threads :
    /\ (ReturnedFrom(t, "put") /\ ret[t] = RetBool(TRUE))
         => ActiveCount(ledger, op[t].key) = 1
    /\ (sequential /\ ReturnedFrom(t, "get") /\ lastw[op[t].key].kind = "put")
         => /\ ret[t].kind = "tuple"
            /\ ret[t].zone = lastw[op[t].key].zone
            /\ ret[t].payload = lastw[op[t].key].payload
            /\ ActiveCount(ledger, op[t].key) = 1

\* C1 witness: a get returns the zone and payload of a put made after the
\* key had been deleted.
C1_Witness ==
  \E t \in Threads :
    /\ ReturnedFrom(t, "get")
    /\ lastw[op[t].key].kind = "put"
    /\ ret[t].kind = "tuple"
    /\ ret[t].payload = lastw[op[t].key].payload
    /\ \E i \in 1..Len(ledger) :
         ledger[i].nebula_coord = op[t].key /\ ledger[i].event_type = "PURGE"

\* C2 (Spec): under every interleaving of the callers' puts and deletes a
\* key never has two active events in the committed ledger, and a key's
\* active event goes away only with the commit of a delete of that key:
\* the deactivation and the insert of an overwrite are committed together.
C2_AtMostOneActive ==
  /\ [](\A k \in Keys : ActiveCount(ledger, k) <= 1)
  /\ [][\A k \in Keys :
          (ActiveCount(ledger, k) = 1 /\ ActiveCount(ledger', k) = 0)
            => \E t \in Threads : /\ pc[t] = "d_commit"
                                  /\ op[t].key = k
                                  /\ pc'[t] = "done"]_vars

\* C2 witness: inside an overwrite the old event is deactivated and the new
\* one not yet inserted, while the committed ledger another caller is
\* reading still has the key's one active event.
C2_Witness ==
  \E t, u \in Threads :
    /\ t # u
    /\ pc[t] = "p_insert"
    /\ ActiveCount(tx, op[t].key) = 0
    /\ ActiveCount(ledger, op[t].key) = 1
    /\ pc[u] \in {"g_check", "g_read"}
    /\ op[u].key = op[t].key

\* C3 (SpecSeq): a delete of a key that has an active event returns True,
\* and a get of a key whose last write was a delete returns None, also when
\* the cache still holds the key's bytes.
C3_DeleteThenGet ==
  \A t \in Threads :
    /\ (ReturnedFrom(t, "delete") /\ ActiveCount(pre[t].ledger, op[t].key) = 1)
         => ret[t] = RetBool(TRUE)
    /\ (sequential /\ ReturnedFrom(t, "get") /\ lastw[op[t].key].kind = "delete")
         => ret[t] = RetNone

\* C3 witness: get returns None for a deleted key whose bytes are still
\* cached.
C3_Witness ==
  \E t \in Threads :
    /\ ReturnedFrom(t, "get")
    /\ lastw[op[t].key].kind = "delete"
    /\ ret[t] = RetNone
    /\ op[t].key \in ChamberKeys(photon_chamber)
    /\ \E i \in 1..Len(ledger) :
         /\ ledger[i].nebula_coord = op[t].key
         /\ ledger[i].event_type = "MATERIALIZE"
         /\ ledger[i].is_active = 0
         /\ decode_photon_packet(ledger[i].photon_packet)
              = ChamberGet(photon_chamber, op[t].key)

\* C4 (SpecSeq), as the claim states it: a delete of a key with no active
\* event returns False and leaves the ledger as it was.
C4_DeleteOfAbsentKey ==
  \A t \in Threads :
    (ReturnedFrom(t, "delete") /\ solo[t] /\ ActiveCount(pre[t].ledger, op[t].key) = 0)
      => /\ ret[t] = RetBool(FALSE)
         /\ ledger = pre[t].ledger

\* C5 (SpecLife): no step of put, get, delete, scan, traverse, metrics,
\* close or reopen removes a committed event or changes any of its fields,
\* except is_active, which only goes from 1 to 0.
C5_AppendOnly ==
  [][/\ Len(ledger') >= Len(ledger)
     /\ \A i \in 1..Len(ledger) :
          /\ [ledger'[i] EXCEPT !.is_active = 0] = [ledger[i] EXCEPT !.is_active = 0]
          /\ ledger'[i].is_active <= ledger[i].is_active]_vars

\* C5 witness: after a close and a reopen the ledger still holds an
\* overwritten (inactive) event followed by a later one.
C5_Witness ==
  /\ closes = 1
  /\ conn["t1"] = "open"
  /\ Len(ledger) = 2
  /\ ledger[1].event_type = "MATERIALIZE"
  /\ ledger[1].is_active = 0
  /\ ledger[2].event_sequence > ledger[1].event_sequence

WriteSteps == {"p_update", "p_insert", "p_commit", "d_update", "d_insert", "d_commit"}

\* Thread t's write fails in this step, its transaction open.
FailsNow(t) == pc[t] \in WriteSteps /\ pc'[t] = "done" /\ loc'[t].fault

\* C6 (Spec): when a put or delete fails at its UPDATE, INSERT or COMMIT,
\* the step rolls the transaction back and reports the failure (False, or
\* the error raised): the committed ledger and the cache are as they were,
\* the write lock is free, and when no other call overlapped, ledger and
\* cache are exactly those of the moment of the call.
C6_FailureRollsBack ==
  [][\A t \in Threads :
       FailsNow(t)
         => /\ ledger' = ledger
            /\ Cache' = Cache
            /\ writer' = "none"
            /\ tx' = <<>>
            /\ ret'[t] \in {RetBool(FALSE), RetRaise("OperationalError")}
            /\ solo[t] => /\ ledger' = pre[t].ledger
                          /\ Cache' = pre[t].cache]_vars

\* C6 witness: an overwrite has failed after its UPDATE and returned False;
\* the event that was active before the call is still the active one.
C6_Witness ==
  \E t \in Threads :
    /\ ReturnedFrom(t, "put")
    /\ loc[t].fault
    /\ solo[t]
    /\ ret[t] = RetBool(FALSE)
    /\ ledger = pre[t].ledger
    /\ ActiveCount(ledger, op[t].key) = 1

\* C7 (Spec): a get whose read of the ledger finds no active event for the
\* key never returns the cached bytes: from the cache-hit check it falls
\* through to the full read, and the full read returns None.  So a get
\* that no call overlaps returns None for a key without an active event,
\* and no get returns a result for a key never written.
C7_NoResurrection ==
  /\ [](\A t \in Threads :
          (ReturnedFrom(t, "get") /\ ret[t].kind = "tuple")
            => /\ \E i \in 1..Len(ledger) :
                    /\ ledger[i].nebula_coord = op[t].key
                    /\ ledger[i].event_type = "MATERIALIZE"
               /\ solo[t] => ActiveCount(ledger, op[t].key) = 1)
  /\ [][\A t \in Threads :
          (pc[t] \in {"g_check", "g_read"} /\ pc'[t] # pc[t]
             /\ ActiveCount(ledger, op[t].key) = 0)
            => \/ pc[t] = "g_check" /\ pc'[t] = "g_read"
               \/ pc[t] = "g_read" /\ pc'[t] = "done" /\ ret'[t] = RetNone]_vars

\* C7 witness: a get that hit the cache returned None, a delete by another
\* caller having committed before the get read the ledger; the bytes are
\* still in the cache.
C7_Witness ==
  \E t, u \in Threads :
    /\ t # u
    /\ ReturnedFrom(t, "get")
    /\ ~solo[t]
    /\ ret[t] = RetNone
    /\ op[t].key \in ChamberKeys(photon_chamber)
    /\ op[u].name = "delete"
    /\ op[u].key = op[t].key
    /\ pc[u] = "done"

\* C8 (Spec), as the claim states it: every call before it having returned,
\* a get overlapping no call returns the payload, zone and pulse_time of
\* the key's active event.
C8_GetReturnsActiveEvent ==
  \A t \in Threads :
    (ReturnedFrom(t, "get") /\ solo[t] /\ ret[t].kind = "tuple")
      => LET row == SelectActive(ledger, op[t].key)
         IN /\ row # <<>>
            /\ ret[t].zone = row[1].galaxy_zone
            /\ ret[t].pulse_timestamp = row[1].pulse_timestamp
            /\ ret[t].payload = decode_photon_packet(row[1].photon_packet)

\* C9 (Spec): every cache entry (k, bytes) is the payload of a MATERIALIZE
\* event for k in the committed ledger.
C9_CacheHoldsCommittedBytes ==
  \A n \in 1..Len(photon_chamber) :
    \E i \in 1..Len(ledger) :
      /\ ledger[i].nebula_coord = photon_chamber[n].key
      /\ ledger[i].event_type = "MATERIALIZE"
      /\ ledger[i].photon_packet = encode_photon_packet(photon_chamber[n].data, TRUE)

\* C9 witness: a put of new bytes for a cached key was rolled back, and the
\* cache holds the committed bytes, not those of the failed put.
C9_Witness ==
  \E t \in Threads :
    /\ ReturnedFrom(t, "put")
    /\ loc[t].fault
    /\ op[t].key \in ChamberKeys(photon_chamber)
    /\ ChamberGet(photon_chamber, op[t].key) # op[t].payload

\* C10 (SpecSeq), as the claim states it, a negative limit read as zero:
\* scan returns at most limit entries, each an active event of the zone,
\* in descending pulse_time.
C10_ScanBounded ==
  \A t \in Threads :
    (ReturnedFrom(t, "scan") /\ ret[t].kind = "list")
      => LET rows == ret[t].rows
             limit == IF op[t].horizon < 0 THEN 0 ELSE op[t].horizon
         IN /\ Len(rows) <= limit
            /\ \A n \in 1..Len(rows) :
                 \E i \in 1..Len(ledger) :
                   /\ ledger[i].event_sequence = rows[n].event_sequence
                   /\ ledger[i].is_active = 1
                   /\ ledger[i].galaxy_zone = op[t].zone
            /\ \A n \in 1..Len(rows) - 1 :
                 rows[n].pulse_timestamp >= rows[n + 1].pulse_timestamp

\* The keys whose active event is in zone z.
KeysActiveIn(rows, z) ==
  { rows[i].nebula_coord :
      i \in { j \in 1..Len(rows) : rows[j].is_active = 1 /\ rows[j].galaxy_zone = z } }

ListedKeys(rows) == { rows[n].nebula_coord : n \in 1..Len(rows) }

\* C11 (SpecSeq): a scan of zone z whose limit is at least the number of
\* active events in z lists exactly the keys whose active event is in z,
\* each once: a deleted key is in no scan, and a key put again in another
\* zone is listed in the new zone only.
C11_ScanListsActiveKeysOfZone ==
  \A t \in Threads :
    (/\ ReturnedFrom(t, "scan")
     /\ ret[t].kind = "list"
     /\ op[t].horizon >= Cardinality(KeysActiveIn(ledger, op[t].zone)))
      => /\ ListedKeys(ret[t].rows) = KeysActiveIn(ledger, op[t].zone)
         /\ Len(ret[t].rows) = Cardinality(KeysActiveIn(ledger, op[t].zone))

\* C11 witness: a scan of the zone a key was first put in does not list
\* the key, which is now active in another zone.
C11_Witness ==
  \E t \in Threads :
    /\ ReturnedFrom(t, "scan")
    /\ ret[t].kind = "list"
    /\ op[t].horizon >= Cardinality(KeysActiveIn(ledger, op[t].zone))
    /\ \E i, j \in 1..Len(ledger) :
         /\ ledger[i].nebula_coord = ledger[j].nebula_coord
         /\ ledger[i].galaxy_zone = op[t].zone
         /\ ledger[i].is_active = 0
         /\ ledger[j].galaxy_zone # op[t].zone
         /\ ledger[j].is_active = 1
         /\ ledger[i].nebula_coord \notin ListedKeys(ret[t].rows)

\* The rows of key k, in event_sequence order.
HistoryOf(rows, k) == SelectSeq(rows, LAMBDA r : r.nebula_coord = k)

CommitsPut(t) == pc[t] = "p_commit" /\ pc'[t] = "p_fill"

\* C12 (SpecSeq): the commit of a put adds exactly one event, of the put's
\* key, to the ledger, so that the successful puts made and the MATERIALIZE
\* events are equally many; in the history of a key never deleted only the
\* last event is active and pulse_timestamp never decreases along
\* event_sequence; a get after the puts returns the last event's payload
\* and pulse_timestamp.
C12_OneEventPerPut ==
  /\ []((\A t \in Threads : pc[t] # "p_fill")
          => RowsOfType(ledger, "MATERIALIZE") = event_counter)
  /\ [](\A k \in Keys :
          LET h == HistoryOf(ledger, k)
          IN (\A n \in 1..Len(h) : h[n].event_type = "MATERIALIZE")
               => /\ \A n \in 1..Len(h) : (h[n].is_active = 1) = (n = Len(h))
                  /\ \A n \in 1..Len(h) - 1 :
                       /\ h[n].event_sequence < h[n + 1].event_sequence
                       /\ h[n].pulse_timestamp <= h[n + 1].pulse_timestamp)
  /\ [](\A t \in Threads :
          LET h == HistoryOf(ledger, op[t].key)
          IN (/\ ReturnedFrom(t, "get")
              /\ h # <<>>
              /\ \A n \in 1..Len(h) : h[n].event_type = "MATERIALIZE")
               => /\ ret[t].kind = "tuple"
                  /\ ret[t].payload = decode_photon_packet(h[Len(h)].photon_packet)
                  /\ ret[t].pulse_timestamp = h[Len(h)].pulse_timestamp)
  /\ [][\A t \in Threads :
          CommitsPut(t)
            => /\ Len(ledger') = Len(ledger) + 1
               /\ Len(HistoryOf(ledger', op[t].key))
                    = Len(HistoryOf(ledger, op[t].key)) + 1]_vars

\* C12 witness: after two puts of one key, the second at a later time, a
\* get returns the second payload and its pulse_timestamp.
C12_Witness ==
  \E t \in Threads :
    LET h == HistoryOf(ledger, op[t].key)
    IN /\ ReturnedFrom(t, "get")
       /\ Len(h) = 2
       /\ event_counter = 2
       /\ h[1].event_type = "MATERIALIZE"
       /\ h[2].event_type = "MATERIALIZE"
       /\ h[1].pulse_timestamp < h[2].pulse_timestamp
       /\ ret[t].kind = "tuple"
       /\ ret[t].pulse_timestamp = h[2].pulse_timestamp

Opens(t) == pc[t] = "idle" /\ pc'[t] = "done" /\ op'[t].name = "open"
Closes(t) == pc[t] = "idle" /\ pc'[t] = "done" /\ op'[t].name = "close"

\* C13 (SpecLife): closing the vault and building a new one on the same
\* file leave every row of the ledger as it was; the new vault starts with
\* an empty cache; and a get through an open conduit returns zone, payload
\* and pulse_timestamp of the key's active row, None when it has none.
C13_ReopenPreservesLedger ==
  /\ [][\A t \in Threads :
          /\ Closes(t) => ledger' = ledger
          /\ Opens(t) => (ledger' = ledger /\ Cache' = collapse_all)]_vars
  /\ [](\A t \in Threads :
          (ReturnedFrom(t, "get") /\ ret[t].kind # "raise")
            => LET row == SelectActive(ledger, op[t].key)
               IN IF row = <<>> THEN ret[t] = RetNone
                  ELSE ret[t] = RetTuple(row[1].galaxy_zone,
                                         decode_photon_packet(row[1].photon_packet),
                                         row[1].pulse_timestamp))

\* C13 witness: the new vault, which has made no put itself, returns from
\* the ledger a value put before the reopen, next to an inactive row.
C13_Witness ==
  /\ closes = 1
  /\ conn["t1"] = "open"
  /\ event_counter = 0
  /\ photon_hits = 0
  /\ ReturnedFrom("t1", "get")
  /\ ret["t1"].kind = "tuple"
  /\ \E i \in 1..Len(ledger) : ledger[i].is_active = 0

VaultCalls == {"put", "get", "delete", "scan", "traverse", "metrics"}

\* C14 (SpecLife), as the claim states it: once shutdown_gateway has
\* returned, every put, get, delete, scan, traverse or metrics call on the
\* vault raises, whichever thread makes it.
C14_ClosedVaultRefusesCalls ==
  \A t \in Threads :
    (/\ conn["t1"] = "closed"
     /\ pc[t] = "done"
     /\ op[t].name \in VaultCalls)
      => ret[t].kind = "raise"

\* A step that puts a key the cache does not hold into a cache holding
\* exactly Capacity entries.
InsertsIntoFullCache(k) ==
  /\ Len(photon_chamber) = Capacity
  /\ k \notin ChamberKeys(photon_chamber)
  /\ k \in ChamberKeys(photon_chamber')

\* C15 (SpecSeq), as the claim states it: such a step removes exactly one
\* occupant and inserts the new key with frequency 1; the removed occupant's
\* score at the eviction's time is at most that of every retained occupant
\* and lower than that of every occupant inserted before it.
C15_EvictsOneLowestScore ==
  [][\A k \in Keys :
       InsertsIntoFullCache(k)
         => LET removed == ChamberKeys(photon_chamber) \ ChamberKeys(photon_chamber')
            IN /\ Cardinality(removed) = 1
               /\ Len(photon_chamber') = Capacity
               /\ resonance_freq'[k] = 1
               /\ \A r \in removed :
                    /\ \A o \in ChamberKeys(photon_chamber) \ removed :
                         ~ScoreLess(Cache, o, r, now')
                    /\ \A n \in 1..ChamberIndex(photon_chamber, r) - 1 :
                         ScoreLess(Cache, r, photon_chamber[n].key, now')]_vars

\* C16 (Spec), as the claim states it: the cache never holds more than
\* Capacity entries.
C16_CacheBounded == Len(photon_chamber) <= Capacity

\* Thread t's call ends with its beam_in.
FillsCache(t) == pc[t] \in {"p_fill", "g_fill"} /\ pc'[t] = "done"

FilledData(t) == IF pc[t] = "p_fill" THEN op[t].payload ELSE loc[t].payload

\* C17 (Spec): a beam_in of a key the cache already holds adds 1 to the
\* key's frequency, sets its last_pulse to the time read, replaces its
\* bytes, and leaves the keys, their order and every other entry's bytes,
\* frequency and last_pulse as they were, the cache being full or not.
C17_OverwriteKeepsOccupants ==
  [][\A t \in Threads :
       (FillsCache(t) /\ op[t].key \in ChamberKeys(photon_chamber))
         => LET k == op[t].key IN
            /\ Len(photon_chamber') = Len(photon_chamber)
            /\ \A n \in 1..Len(photon_chamber) :
                 /\ photon_chamber'[n].key = photon_chamber[n].key
                 /\ photon_chamber'[n].data = IF photon_chamber[n].key = k
                                              THEN FilledData(t)
                                              ELSE photon_chamber[n].data
            /\ resonance_freq' = [resonance_freq EXCEPT ![k] = @ + 1]
            /\ last_pulse' = [last_pulse EXCEPT ![k] = now']]_vars

\* C17 witness: a second put of a key in a full cache that no get has
\* touched: frequency 2, the new bytes, the same single occupant.
C17_Witness ==
  \E t \in Threads :
    /\ ReturnedFrom(t, "put")
    /\ ret[t] = RetBool(TRUE)
    /\ total_queries = 0
    /\ Len(photon_chamber) = Capacity
    /\ op[t].key \in ChamberKeys(photon_chamber)
    /\ resonance_freq[op[t].key] = 2
    /\ ChamberGet(photon_chamber, op[t].key) = op[t].payload
    /\ last_pulse[op[t].key] = now

\* Thread t's get starts: beam_out runs under the cache's mutex.
CallsGet(t) == pc[t] = "idle" /\ pc'[t] \in {"g_check", "g_read"}

\* C18 (Spec): beam_out of a cached key returns its bytes, adds 1 to its
\* frequency, to total_queries and to photon_hits and sets its last_pulse
\* to the time read, the entries otherwise unchanged; beam_out of a key not
\* cached returns None and changes total_queries (+1) only.
C18_BeamOutEffects ==
  [][\A t \in Threads :
       CallsGet(t)
         => LET k == op'[t].key IN
            /\ total_queries' = total_queries + 1
            /\ photon_chamber' = photon_chamber
            /\ IF k \in ChamberKeys(photon_chamber)
               THEN /\ pc'[t] = "g_check"
                    /\ loc'[t].cached = ChamberGet(photon_chamber, k)
                    /\ photon_hits' = photon_hits + 1
                    /\ resonance_freq' = [resonance_freq EXCEPT ![k] = @ + 1]
                    /\ last_pulse' = [last_pulse EXCEPT ![k] = now']
               ELSE /\ pc'[t] = "g_read"
                    /\ photon_hits' = photon_hits
                    /\ resonance_freq' = resonance_freq
                    /\ last_pulse' = last_pulse]_vars

\* C18 witness: after one miss, a hit has just returned the cached bytes.
C18_Witness ==
  \E t \in Threads :
    /\ pc[t] = "g_check"
    /\ total_queries = 2
    /\ photon_hits = 1
    /\ loc[t].cached = ChamberGet(photon_chamber, op[t].key)
    /\ resonance_freq[op[t].key] >= 2

\* C19 (SpecLife), as the claim states it: when collapse_all has returned
\* (shutdown_gateway is its caller) the cache has no entries, both counters
\* are 0 and the efficiency is 0.0.
C19_CollapseResetsCounters ==
  \A t \in Threads :
    ReturnedFrom(t, "close")
      => /\ photon_chamber = <<>>
         /\ total_queries = 0
         /\ photon_hits = 0
         /\ efficiency_quotient(photon_hits, total_queries) = <<0, 1>>

\* C20 (SpecLife): 0 <= photon_hits <= total_queries in every state; the
\* efficiency that get_metrics reports is photon_hits / total_queries, and
\* 0.0 (the fraction 0/1) before any query; total_queries rises by exactly 1
\* with every get (its one beam_out), starts again at 0 with a new vault's
\* cache, and no other step changes it.
C20_CountersAndEfficiency ==
  /\ [](0 <= photon_hits /\ photon_hits <= total_queries)
  /\ [](\A t \in Threads :
          (ReturnedFrom(t, "metrics") /\ ret[t].kind = "metrics")
            => /\ ret[t].cache_hits = photon_hits
               /\ ret[t].cache_queries = total_queries
               /\ ret[t].photon_efficiency =
                    IF total_queries = 0 THEN <<0, 1>>
                    ELSE <<photon_hits, total_queries>>)
  /\ [][total_queries' =
          IF \E t \in Threads : CallsGet(t) THEN total_queries + 1
          ELSE IF \E t \in Threads : Opens(t) THEN 0
          ELSE total_queries]_vars

\* C20 witness: get_metrics reports the efficiency 1/2 after a miss and a
\* hit.
C20_Witness ==
  \E t \in Threads :
    /\ ReturnedFrom(t, "metrics")
    /\ ret[t].kind = "metrics"
    /\ total_queries = 2
    /\ photon_hits = 1
    /\ ret[t].photon_efficiency = <<1, 2>>

(***************************************************************************)
(* The codec and the Merkle proof.                                         *)
(***************************************************************************)
\* The three fields of a packet's header.
FlagOf(packet) == packet[1]
OriginalSizeOf(packet) == UnpackU32(SubSeq(packet, 2, 5))
PacketSizeOf(packet) == UnpackU16(SubSeq(packet, 6, 7))

\* C21: whenever encode_photon_packet returns a packet for a payload p, with
\* compression or without, the packet is a 7-byte header holding the flag,
\* the length of p and the length of the encoded body, followed by exactly
\* that many bytes, and decode_photon_packet of the packet is p; and
\* whenever decode_photon_packet is called on a packet that some call of
\* encode_photon_packet returns, it returns the payload that was encoded.
C21_CodecRoundTrip ==
  \A t \in Threads :
    /\ ReturnedFrom(t, "encode") /\ ret[t].kind = "bytes"
         => LET packet == ret[t].value
            IN /\ Len(packet) >= HeaderSize
               /\ FlagOf(packet) = IF op[t].compression THEN 1 ELSE 0
               /\ OriginalSizeOf(packet) = Len(op[t].data)
               /\ Len(packet) = HeaderSize + PacketSizeOf(packet)
               /\ ~DecodeFails(packet)
               /\ decode_photon_packet(packet) = op[t].data
    /\ ReturnedFrom(t, "decode")
         => \A in \in EncodeInputs :
              EncodeOutcome[in] = RetBytes(op[t].packet)
                => ret[t] = RetBytes(in[1])

\* A compressed packet that encode_photon_packet returns has been decoded
\* back to its payload of 257 bytes.
C21_Witness ==
  \E t \in Threads :
    /\ ReturnedFrom(t, "decode")
    /\ op[t].packet \in EncodedPackets
    /\ FlagOf(op[t].packet) = 1
    /\ PacketSizeOf(op[t].packet) = 259
    /\ ret[t].kind = "bytes"
    /\ Len(ret[t].value) = 257

\* C22: a put of a payload whose compressed body does not fit the header's
\* length field returns the failure result False, and it leaves the ledger
\* and the cache as they were when it was called.
C22_OversizePutReportsFailure ==
  \A t \in Threads :
    ReturnedFrom(t, "put") /\ EncodeFails(op[t].payload, TRUE)
      => /\ ret[t] = RetBool(FALSE)
         /\ ledger = pre[t].ledger
         /\ Cache = pre[t].cache

\* C23: when the active event of a key holds a packet that is shorter than
\* the header, or a flag-1 packet whose body does not decompress, a get of
\* the key that missed the cache ends in the decoder's exception: it does
\* not return None, and the cache is as it was before the call, with no
\* entry for the key.
C23_GetSurfacesDecodeError ==
  \A t \in Threads :
    ReturnedFrom(t, "get") /\ op[t].key \notin ChamberKeys(pre[t].cache.chamber)
      => LET row == SelectActive(ledger, op[t].key)
         IN row # <<>>
            /\ \/ Len(row[1].photon_packet) < 7
               \/ /\ FlagOf(row[1].photon_packet) = 1
                  /\ ~ZlibValid(SubSeq(row[1].photon_packet, 8,
                                       Len(row[1].photon_packet)))
            => /\ ret[t].kind = "raise"
               /\ ret[t].error \in {"ValueError", "zlib.error"}
               /\ op[t].key \notin ChamberKeys(photon_chamber)
               /\ Cache = pre[t].cache

\* A get that missed the cache has ended in zlib.error on a stored packet
\* whose body is no zlib stream.
C23_Witness ==
  \E t \in Threads :
    /\ ReturnedFrom(t, "get")
    /\ op[t].key \notin ChamberKeys(pre[t].cache.chamber)
    /\ SelectActive(ledger, op[t].key) # <<>>
    /\ FlagOf(SelectActive(ledger, op[t].key)[1].photon_packet) = 1
    /\ ret[t] = RetRaise("zlib.error")
    /\ photon_chamber # <<>>

\* C24: whenever decode_photon_packet returns a payload, the packet's flag
\* is 0 or 1, the bytes after the header are as many as the header's
\* encoded-length field says, and the payload is as long as the header's
\* original-length field says.
C24_DecodeValidatesHeader ==
  \A t \in Threads :
    ReturnedFrom(t, "decode") /\ ret[t].kind = "bytes"
      => /\ FlagOf(op[t].packet) \in {0, 1}
         /\ Len(op[t].packet) - HeaderSize = PacketSizeOf(op[t].packet)
         /\ Len(ret[t].value) = OriginalSizeOf(op[t].packet)

\* The documented construction, written out for up to five chunks.
DocumentedRoot(c) ==
  LET h(i) == Sha256(c[i])
      P(x, y) == Sha256(x \o y)
  IN HexOf(CASE Len(c) = 0 -> Sha256(EmptySentinel)
             [] Len(c) = 1 -> h(1)
             [] Len(c) = 2 -> P(h(1), h(2))
             [] Len(c) = 3 -> P(P(h(1), h(2)), P(h(3), h(3)))
             [] Len(c) = 4 -> P(P(h(1), h(2)), P(h(3), h(4)))
             [] Len(c) = 5 -> P(P(P(h(1), h(2)), P(h(3), h(4))),
                                P(P(h(5), h(5)), P(h(5), h(5)))))

\* The 256-byte chunks of a payload, the last one shorter.
PayloadChunks(p) ==
  [i \in 1..((Len(p) + 255) \div 256) |->
     SubSeq(p, 256 * (i - 1) + 1, IF 256 * i < Len(p) THEN 256 * i ELSE Len(p))]

\* C25: compute_merkle_root returns the root of the documented construction
\* (the hash of the sentinel for no chunk, the hash of the chunk for one,
\* else pairwise hashing level by level with an unpaired last hash paired
\* with itself), and the event a successful put commits carries the root
\* over the 256-byte chunks of the raw payload.
C25_MerkleRootAsDocumented ==
  \A t \in Threads :
    /\ ReturnedFrom(t, "merkle")
         => ret[t] = RetStr(DocumentedRoot(op[t].data_chunks))
    /\ ReturnedFrom(t, "put") /\ ret[t] = RetBool(TRUE)
         => /\ ledger # <<>>
            /\ ledger[Len(ledger)].nebula_coord = op[t].key
            /\ ledger[Len(ledger)].merkle_proof
                 = DocumentedRoot(PayloadChunks(op[t].payload))

\* A put of a payload of three chunks, the last of one byte, has committed.
C25_Witness ==
  \E t \in Threads :
    /\ ReturnedFrom(t, "put") /\ ret[t] = RetBool(TRUE)
    /\ Len(op[t].payload) = 513
    /\ Len(PayloadChunks(op[t].payload)) = 3
    /\ ledger[Len(ledger)].merkle_proof
         = DocumentedRoot(PayloadChunks(op[t].payload))

(***************************************************************************)
(* The range query and the metrics.                                        *)
(***************************************************************************)
\* The columns of an event that traverse reports.
JourneyView(row) ==
  [nebula_coord    |-> row.nebula_coord,
   galaxy_zone     |-> row.galaxy_zone,
   pulse_timestamp |-> row.pulse_timestamp,
   merkle_proof    |-> row.merkle_proof,
   event_type      |-> row.event_type,
   is_active       |-> row.is_active]

\* C26: the list traverse(start, end, active_only) returns holds, once each,
\* exactly the events of the ledger with start <= pulse_timestamp <= end
\* (the active ones only when active_only, else the deactivated writes and
\* the tombstones too), in ascending order of pulse_timestamp.
C26_TraverseReturnsRange ==
  \A t \in Threads :
    ReturnedFrom(t, "traverse") /\ ret[t].kind = "list"
      => LET r == ret[t].rows
             InRange == { i \in 1..Len(ledger) :
                            /\ op[t].start_pulse <= ledger[i].pulse_timestamp
                            /\ ledger[i].pulse_timestamp <= op[t].end_pulse
                            /\ (op[t].active_filter => ledger[i].is_active = 1) }
         IN /\ Len(r) = Cardinality(InRange)
            /\ \E o \in [1..Len(r) -> InRange] :
                 /\ \A n, m \in 1..Len(r) : n # m => o[n] # o[m]
                 /\ \A n \in 1..Len(r) : r[n] = JourneyView(ledger[o[n]])
            /\ \A n \in 1..(Len(r) - 1) :
                 r[n].pulse_timestamp <= r[n + 1].pulse_timestamp

\* A query of the range [1, 1] over all events has returned a deactivated
\* write and a tombstone, both written at time 1, and has left out an event
\* written at time 0.
C26_Witness ==
  \E t \in Threads :
    /\ ReturnedFrom(t, "traverse") /\ ret[t].kind = "list"
    /\ op[t].start_pulse = 1 /\ op[t].end_pulse = 1 /\ ~op[t].active_filter
    /\ \E n, m \in 1..Len(ret[t].rows) :
         /\ ret[t].rows[n].event_type = "PURGE"
         /\ ret[t].rows[m].event_type = "MATERIALIZE"
         /\ ret[t].rows[m].is_active = 0
    /\ \E i \in 1..Len(ledger) : ledger[i].pulse_timestamp = 0

\* A step of thread t inside, into or out of a call of one of the names.
StepsIn(t, names) ==
  /\ pc[t] # pc'[t]
  /\ op[t].name \in names \/ op'[t].name \in names

\* C27: the counts get_metrics returns are those of the ledger: total_events
\* is the number of events, total_coordinates the number of distinct keys,
\* active_coordinates the number of keys with an active event, which is the
\* number of active events, and active_coordinates <= total_coordinates <=
\* total_events.  No step lowers total_events; the commit of a put raises
\* it by exactly 1 and no other step of a put changes a count; and no step
\* of a get, a scan, a range query or get_metrics changes any of the four
\* counts.
C27_MetricsTruthful ==
  [][ /\ \A t \in Threads :
           pc'[t] = "done" /\ op'[t].name = "metrics" /\ ret'[t].kind = "metrics"
             => LET m == ret'[t].counts
                IN /\ m.total_events = Len(ledger')
                   /\ m.total_coordinates
                        = Cardinality({ k \in Keys : \E i \in 1..Len(ledger') :
                                          ledger'[i].nebula_coord = k })
                   /\ m.active_coordinates
                        = Cardinality({ k \in Keys : ActiveIndexes(ledger', k) # {} })
                   /\ m.active_coordinates
                        = Cardinality({ i \in 1..Len(ledger') : ledger'[i].is_active = 1 })
                   /\ m.active_coordinates <= m.total_coordinates
                   /\ m.total_coordinates <= m.total_events
      /\ MetricsOf(ledger').total_events >= MetricsOf(ledger).total_events
      /\ \A t \in Threads :
           /\ StepsIn(t, {"put"})
                => IF CommitsPut(t)
                   THEN MetricsOf(ledger').total_events
                          = MetricsOf(ledger).total_events + 1
                   ELSE MetricsOf(ledger') = MetricsOf(ledger)
           /\ StepsIn(t, {"get", "scan", "traverse", "metrics"})
                => MetricsOf(ledger') = MetricsOf(ledger)
    ]_vars

\* get_metrics has returned 3 events, 2 keys and 1 active key: two keys
\* were put and one of them deleted.
C27_Witness ==
  \E t \in Threads :
    /\ ReturnedFrom(t, "metrics") /\ ret[t].kind = "metrics"
    /\ ret[t].counts.total_events = 3
    /\ ret[t].counts.total_coordinates = 2
    /\ ret[t].counts.active_coordinates = 1
    /\ RowsOfType(ledger, "PURGE") = 1

(***************************************************************************)
(* Sequence numbers, the read-through cache fill, and delete's frame.      *)
(***************************************************************************)
\* C28: under every interleaving of puts and deletes, with transactions
\* rolled back among them, the events of the ledger, which stand in commit
\* order, have strictly increasing (hence distinct) event_sequence numbers,
\* and the events a commit adds are numbered above every event that was
\* there before it.
C28_SequenceIncreasing ==
  [][ /\ \A i, j \in 1..Len(ledger') :
           i < j => ledger'[i].event_sequence < ledger'[j].event_sequence
      /\ \A j \in (Len(ledger) + 1)..Len(ledger') : \A i \in 1..Len(ledger) :
           ledger[i].event_sequence < ledger'[j].event_sequence
    ]_vars

\* A transaction has been rolled back and its call has returned False, and
\* the ledger holds two events numbered 1 and 2, the second of them
\* committed after the rollback.
C28_Witness ==
  \E t \in Threads :
    /\ pc[t] = "done" /\ loc[t].fault /\ ret[t] = RetBool(FALSE)
    /\ Len(ledger) = 2
    /\ ledger[1].event_sequence = 1
    /\ ledger[2].event_sequence = 2

\* C29: a get of k that missed the cache and found an active event returns
\* the decoded payload of that event and leaves it in the cache under k; a
\* get of k called while the cache holds k and k has an active event is a
\* hit that returns the cached payload, so the get that follows a miss at
\* once returns the same payload from the cache; and a get that returns
\* None leaves the entries of the cache as they were when it was called.
C29_MissFillsCache ==
  \A t \in Threads :
    ReturnedFrom(t, "get")
      => LET k == op[t].key
             before == pre[t].cache.chamber
             row == SelectActive(ledger, k)
         IN /\ ret[t].kind = "tuple"
                 => /\ k \in ChamberKeys(photon_chamber)
                    /\ ChamberGet(photon_chamber, k) = ret[t].payload
            /\ ret[t].kind = "tuple" /\ k \notin ChamberKeys(before)
                 => /\ row # <<>>
                    /\ ret[t].payload = decode_photon_packet(row[1].photon_packet)
            /\ k \in ChamberKeys(before) /\ row # <<>> /\ ret[t].kind # "raise"
                 => /\ ret[t].kind = "tuple"
                    /\ ret[t].payload = ChamberGet(before, k)
                    /\ photon_hits = pre[t].hits + 1
            /\ ret[t] = RetNone => photon_chamber = before

\* In a vault opened on an existing file, which has put nothing itself, the
\* second of two gets has returned the non-empty payload of a key from the
\* cache: the first get missed and filled it.
C29_Witness ==
  \E t \in Threads :
    /\ ReturnedFrom(t, "get") /\ ret[t].kind = "tuple"
    /\ ret[t].payload # <<>>
    /\ closes = 1 /\ event_counter = 0
    /\ total_queries = 2 /\ photon_hits = 1
    /\ op[t].key \in ChamberKeys(pre[t].cache.chamber)
    /\ FreqOf(resonance_freq, op[t].key) = 2

\* A step of thread t's call of delete: the call, a statement of its
\* transaction, its return, its failure or its timeout.
DeleteStep(t) ==
  \/ pc[t] = "idle" /\ pc'[t] = "d_begin"
  \/ pc[t] \in {"d_begin", "d_update", "d_insert", "d_commit"} /\ pc'[t] # pc[t]

\* C30: no step of a delete, whether the delete commits, fails and rolls
\* back, or times out, changes the cache: the entries and their bytes, the
\* access frequencies, the last access times, and the query and hit
\* counters all stay as they are.
C30_DeleteLeavesCache ==
  [][ \A t \in Threads : DeleteStep(t) => UNCHANGED cacheVars ]_vars

\* A delete has returned True and the cache still holds the deleted key
\* with the bytes and the frequency it had when the delete was called.
C30_Witness ==
  \E t \in Threads :
    /\ ReturnedFrom(t, "delete") /\ ret[t] = RetBool(TRUE)
    /\ solo[t]
    /\ RowsOfType(ledger, "PURGE") = 1
    /\ op[t].key \in ChamberKeys(photon_chamber)
    /\ ChamberGet(photon_chamber, op[t].key) # <<>>
    /\ Cache = pre[t].cache
    /\ FreqOf(resonance_freq, op[t].key) >= 1

(***************************************************************************)
(* Tombstones, pulse times, termination, the proof, and the cache's maps.  *)
(***************************************************************************)
\* C31: the commit of a delete of a key that has an active event adds
\* exactly one event: a PURGE event of the key that is not active, carries
\* no payload bytes, has the zone of the event the delete deactivated, and
\* has the highest event_sequence; and no PURGE event is ever active.
C31_TombstoneOfDelete ==
  [][ /\ \A t \in Threads :
           /\ pc[t] = "d_commit" /\ pc'[t] = "done" /\ ret'[t] = RetBool(TRUE)
           /\ ActiveIndexes(ledger, op[t].key) # {}
           => LET n == Len(ledger')
              IN /\ n = Len(ledger) + 1
                 /\ ledger'[n].nebula_coord = op[t].key
                 /\ ledger'[n].event_type = "PURGE"
                 /\ ledger'[n].is_active = 0
                 /\ Len(ledger'[n].photon_packet) <= HeaderSize
                 /\ \A i \in ActiveIndexes(ledger, op[t].key) :
                      ledger'[n].galaxy_zone = ledger[i].galaxy_zone
                 /\ \A i \in 1..Len(ledger) :
                      ledger'[i].event_sequence < ledger'[n].event_sequence
      /\ \A i \in 1..Len(ledger') :
           ledger'[i].event_type = "PURGE" => ledger'[i].is_active = 0
    ]_vars

\* C32: among the events of one key, an event with a larger event_sequence
\* never carries an earlier pulse_timestamp, whatever the interleaving of
\* the writers.
C32_PulseTimeFollowsSequence ==
  \A i, j \in 1..Len(ledger) :
    /\ ledger[i].nebula_coord = ledger[j].nebula_coord
    /\ ledger[i].event_sequence < ledger[j].event_sequence
    => ledger[i].pulse_timestamp <= ledger[j].pulse_timestamp

\* C34: two events that put commits for different payloads never carry the
\* same merkle_proof.
C34_ProofDistinguishesPayloads ==
  \A i, j \in 1..Len(ledger) :
    /\ ledger[i].event_type = "MATERIALIZE"
    /\ ledger[j].event_type = "MATERIALIZE"
    /\ decode_photon_packet(ledger[i].photon_packet)
         # decode_photon_packet(ledger[j].photon_packet)
    => ledger[i].merkle_proof # ledger[j].merkle_proof

\* C35: in every state the keys of photon_chamber, of resonance_freq and of
\* last_pulse are the same set, no key is in photon_chamber twice, and
\* every cached key has a frequency of at least 1.
C35_CacheMapsAgree ==
  /\ DOMAIN resonance_freq = ChamberKeys(photon_chamber)
  /\ DOMAIN last_pulse = ChamberKeys(photon_chamber)
  /\ Cardinality(ChamberKeys(photon_chamber)) = Len(photon_chamber)
  /\ \A k \in ChamberKeys(photon_chamber) : resonance_freq[k] >= 1

\* Two keys have been put into a cache of capacity 1 that was never
\* collapsed, the first has been evicted, and the second has been read from
\* the cache since.
C35_Witness ==
  /\ closes = 0
  /\ event_counter = 2
  /\ Len(ledger) = 2
  /\ ledger[1].nebula_coord # ledger[2].nebula_coord
  /\ Len(photon_chamber) = 1
  /\ photon_hits >= 1
  /\ resonance_freq[photon_chamber[1].key] >= 2

\* Thread t is inside a call that has not returned.
InCall(t) == pc[t] \notin {"idle", "done"}

\* The steps of a write at which its transaction is open.
InTransaction(t) ==
  pc[t] \in {"p_update", "p_insert", "p_commit", "d_update", "d_insert", "d_commit"}

\* C33: the write lock is held by a thread only while the transaction of
\* its put or delete is open, so no call returns holding it; and every
\* call of put, get and delete that has begun eventually returns or raises.
C33_EveryCallReturns ==
  /\ [](\A t \in Threads : writer = t => InTransaction(t))
  /\ \A t \in Threads : InCall(t) ~> (pc[t] = "done")

\* A put waits for the write lock while the other thread's delete holds it
\* with its transaction open.
C33_Witness ==
  \E t, u \in Threads :
    /\ t # u
    /\ pc[t] = "p_begin" /\ conn[t] = "open"
    /\ writer = u
    /\ pc[u] \in {"d_update", "d_insert", "d_commit"}

=============================================================================
